---- MODULE Spec2Model ----
(***************************************************************************)
(* The nodelist of src/or/nodelist.c: the identity-keyed table of node_t   *)
(* objects and its reconciliation with routerinfos, microdescriptors and   *)
(* consensus documents.                                                    *)
(*                                                                         *)
(* Pointers are modelled as values: a node_t* is an object number of the   *)
(* heap (0 is NULL), a routerinfo_t*, routerstatus_t* or microdesc_t* is   *)
(* the record of the object's contents together with the field that tells  *)
(* rs of one consensus from that of another (ns, the owning consensus);    *)
(* NULL is the null pointer of these.                                      *)
(***************************************************************************)
EXTENDS Integers, Sequences, FiniteSets, TLC

VARIABLES the_nodelist, heap, held_by_nodes, md_cache, cur_ns, md_ns,
          options

\* The readiness estimator: its four statics, the static logged_delay of
\* router_have_minimum_dir_info, and what the controller has seen of it:
\* control_events, the events of the last call into the estimator,
\* last_client_status, the last client-status event ever sent, and
\* n_updates, the recomputations since the last router_dir_info_changed.
VARIABLES have_min_dir_info, have_consensus_path,
          need_to_update_have_min_dir_info, dir_info_status, logged_delay,
          control_events, last_client_status, n_updates

dirinfo == <<have_min_dir_info, have_consensus_path,
             need_to_update_have_min_dir_info, dir_info_status, logged_delay,
             control_events, last_client_status, n_updates>>

\* The last call of an accessor of a node: the accessor, the node handed to
\* it, what else it was given and what it returned (NULL before any call).
VARIABLES accessed

vars == <<the_nodelist, heap, held_by_nodes, md_cache, cur_ns, md_ns,
          options, dirinfo, accessed>>

(***************************************************************************)
(* Bounds of the model.                                                    *)
(***************************************************************************)
\* identities (RSA digests) are 1..MaxId
MaxId == 2
\* descriptor digests are 1..MaxDigest
MaxDigest == 2
\* IPv4 addresses are 1..MaxAddr (0 is the null address)
MaxAddr == 3
\* times of reachability probes are 1..MaxTime (0 is "never")
MaxTime == 1
\* the recomputations of the readiness estimator that are counted
MaxUpdates == 2
\* a hex digest has HexDigestLen hex digits (HEX_DIGEST_LEN, 40 in the code)
HexDigestLen == 2

Ids == 1..MaxId
Digests == 1..MaxDigest
Addrs == 1..MaxAddr
\* node_t objects: one more than identities, so that a duplicate can exist
Objs == 1..(MaxId + 1)
\* consensus objects alive at once: current, latest microdesc, incoming
NsObjs == 1..3

NULL == [null |-> TRUE]

FLAV_NS == "ns"
FLAV_MICRODESC == "microdesc"
ROUTER_PURPOSE_GENERAL == "general"
ROUTER_PURPOSE_BRIDGE == "bridge"
\* consensus_path_type_t
CONSENSUS_PATH_UNKNOWN == "UNKNOWN"
CONSENSUS_PATH_EXIT == "EXIT"
CONSENSUS_PATH_INTERNAL == "INTERNAL"

(***************************************************************************)
(* The records of the external objects.                                    *)
(***************************************************************************)
FlagNames == {"is_valid", "is_flagged_running", "is_fast", "is_stable",
              "is_possible_guard", "is_exit", "is_bad_exit", "is_hs_dir"}

\* the nickname the router of an identity gives itself, no two the same
RouterNicknames == <<"alice", "bob", "carol", "dave">>
NicknameOf(id) == RouterNicknames[id]

\* a routerinfo_t: addresses are small integers, 0 the null address
\* (the exit policy of these routerinfos accepts something).  The
\* protocol_list is NULL or the record of the versions of each protocol,
\* the signing_key_cert is NULL or the record of its signing key (0 the
\* all-zero key), the declared_family is NULL or the record of the list of
\* its tokens.
RouterInfo(id, addr, ipv6, purpose) ==
  [identity_digest |-> id, nickname |-> NicknameOf(id),
   addr |-> addr, or_port |-> 9001,
   ipv6_addr |-> ipv6, ipv6_orport |-> IF ipv6 = 0 THEN 0 ELSE 9001,
   purpose |-> purpose, policy_is_reject_star |-> FALSE,
   supports_tunnelled_dir_requests |-> FALSE,
   protocol_list |-> NULL, signing_key_cert |-> NULL,
   declared_family |-> NULL]

\* a routerstatus_t of the consensus object ns; flags is the set of the
\* flags the consensus gives it
RouterStatus(ns, id, digest, addr, ipv6, flags) ==
  [ns |-> ns, identity_digest |-> id, descriptor_digest |-> digest,
   nickname |-> NicknameOf(id),
   addr |-> addr, or_port |-> 9001,
   ipv6_addr |-> ipv6, ipv6_orport |-> IF ipv6 = 0 THEN 0 ELSE 9001,
   is_v2_dir |-> FALSE, supports_ed25519_link_handshake |-> FALSE,
   is_named |-> "is_named" \in flags,
   is_unnamed |-> "is_unnamed" \in flags,
   is_valid |-> "is_valid" \in flags,
   is_flagged_running |-> "is_flagged_running" \in flags,
   is_fast |-> "is_fast" \in flags,
   is_stable |-> "is_stable" \in flags,
   is_possible_guard |-> "is_possible_guard" \in flags,
   is_exit |-> "is_exit" \in flags,
   is_bad_exit |-> "is_bad_exit" \in flags,
   is_hs_dir |-> "is_hs_dir" \in flags]

\* a microdesc_t (its held_by_nodes counter is the variable held_by_nodes)
\* and an exit policy summary that accepts something; the
\* ed25519_identity_pkey is NULL or the record of the key, the family is
\* NULL or the record of the list of its tokens
Microdesc(digest, ipv6) ==
  [digest |-> digest,
   ipv6_addr |-> ipv6, ipv6_orport |-> IF ipv6 = 0 THEN 0 ELSE 9001,
   exit_policy |-> [accept |-> {80, 443}],
   ed25519_identity_pkey |-> NULL, family |-> NULL]

\* tor_malloc_zero(sizeof(node_t)) followed by the assignments of
\* node_get_or_create
NewNode(id, idx) ==
  [identity |-> id, ri |-> NULL, rs |-> NULL, md |-> NULL,
   nodelist_idx |-> idx, country |-> -1,
   last_reachable |-> 0, last_reachable6 |-> 0,
   is_valid |-> FALSE, is_running |-> FALSE, is_fast |-> FALSE,
   is_stable |-> FALSE, is_possible_guard |-> FALSE, is_exit |-> FALSE,
   is_bad_exit |-> FALSE, is_hs_dir |-> FALSE, ipv6_preferred |-> FALSE,
   rejects_all |-> FALSE, name_lookup_warned |-> FALSE]

(***************************************************************************)
(* The nodelist as a value.  A handler is a function from the value before *)
(* to the value after; S.nl is the_nodelist (NULL before init_nodelist),   *)
(* S.heap the node_t objects, S.held the held_by_nodes counters of the     *)
(* microdescs.  S.created and S.freed record the identities whose node_t   *)
(* was allocated and freed by the handler.                                 *)
(***************************************************************************)
\* HT_FIND(nodelist_map, &the_nodelist->nodes_by_id, &search)
HT_FIND(S, id) ==
  LET found == {o \in S.nl.nodes_by_id : S.heap[o].identity = id}
  IN  IF found = {} THEN 0 ELSE CHOOSE o \in found : TRUE

init_nodelist(S) ==
  IF S.nl = NULL
    THEN [S EXCEPT !.nl = [nodes |-> <<>>, nodes_by_id |-> {}]]
    ELSE S

node_get_mutable_by_id(S, id) ==
  IF S.nl = NULL THEN 0 ELSE HT_FIND(S, id)

\* tor_malloc_zero answers a free object: the one numbered as the identity
\* when that is free, else the lowest free one
Malloc(S, id) ==
  IF S.heap[id] = NULL THEN id
  ELSE CHOOSE o \in Objs :
         /\ S.heap[o] = NULL
         /\ \A p \in Objs : S.heap[p] = NULL => o <= p

\* node_get_or_create: the nodelist after, and the node
\* mutant: a node that exists is destroyed and made anew
Mut_node_get_or_create(S, id) ==
  LET node == node_get_mutable_by_id(S, id)
  IN  IF node # 0
        THEN [S |-> [S EXCEPT
                       !.heap[node] = NewNode(id, S.heap[node].nodelist_idx),
                       !.freed = @ \cup {id},
                       !.created = @ \cup {id}],
              node |-> node]
        ELSE LET new == Malloc(S, id)
                 idx == Len(S.nl.nodes)
             IN  [S |-> [S EXCEPT
                           !.nl.nodes_by_id = @ \cup {new},
                           !.nl.nodes = Append(@, new),
                           !.heap[new] = NewNode(id, idx),
                           !.created = @ \cup {id}],
                  node |-> new]

node_get_or_create(S, id) ==
  LET node == node_get_mutable_by_id(S, id)
  IN  IF node # 0
        THEN [S |-> S, node |-> node]
        ELSE LET new == Malloc(S, id)
                 idx == Len(S.nl.nodes)
             IN  [S |-> [S EXCEPT
                           !.nl.nodes_by_id = @ \cup {new},
                           !.nl.nodes = Append(@, new),
                           !.heap[new] = NewNode(id, idx),
                           !.created = @ \cup {id}],
                  node |-> new]

\* geoip.c: the country of addr, -1 when the database has none for it; the
\* database of the model knows the odd addresses (not the null address 0)
geoip_get_country_by_addr(addr) == IF addr % 2 = 0 THEN -1 ELSE addr

\* mutant: the country found for the old address is kept
Mut_node_addrs_changed(S, node) ==
  [S EXCEPT !.heap[node].last_reachable = 0,
            !.heap[node].last_reachable6 = 0]

node_addrs_changed(S, node) ==
  [S EXCEPT !.heap[node].last_reachable = 0,
            !.heap[node].last_reachable6 = 0,
            !.heap[node].country = -1]

node_set_country(S, node) ==
  LET n == S.heap[node]
      addr == IF n.rs # NULL THEN n.rs.addr
              ELSE IF n.ri # NULL THEN n.ri.addr
              ELSE 0
  IN  [S EXCEPT !.heap[node].country = geoip_get_country_by_addr(addr)]

\* router.c: routers_have_same_or_addrs
routers_have_same_or_addrs(r1, r2) ==
  /\ r1.addr = r2.addr
  /\ r1.or_port = r2.or_port
  /\ r1.ipv6_addr = r2.ipv6_addr
  /\ r1.ipv6_orport = r2.ipv6_orport

\* dirserv.c: the bits of dirserv_router_get_status that
\* dirserv_set_node_flags_from_authoritative_status reads
AuthStatuses == {{}, {"FP_INVALID"}, {"FP_BADEXIT"}}

dirserv_set_node_flags_from_authoritative_status(S, node, authstatus) ==
  [S EXCEPT !.heap[node].is_valid = ~("FP_INVALID" \in authstatus),
            !.heap[node].is_bad_exit = ("FP_BADEXIT" \in authstatus)]

authdir_mode(opt) == opt.AuthoritativeDir
authdir_mode_v3(opt) == opt.AuthoritativeDir /\ opt.V3AuthoritativeDir
fascist_firewall_prefer_ipv6_orport(opt) == opt.ClientPreferIPv6ORPort
\* policies.c: a client may use IPv6 when it is allowed to or prefers to
fascist_firewall_use_ipv6(opt) ==
  opt.ClientUseIPv6 \/ opt.ClientPreferIPv6ORPort

\* authstatus is what dirserv_router_get_status answers for ri
nodelist_set_routerinfo(S0, opt, ri, authstatus) ==
  LET S1 == init_nodelist(S0)
      gc == node_get_or_create(S1, ri.identity_digest)
      node == gc.node
      had_router == gc.S.heap[node].ri # NULL
      S2 == IF had_router /\ ~routers_have_same_or_addrs(gc.S.heap[node].ri, ri)
              THEN node_addrs_changed(gc.S, node)
              ELSE gc.S
      S3 == [S2 EXCEPT !.heap[node].ri = ri]
      S4 == IF S3.heap[node].country = -1
              THEN node_set_country(S3, node)
              ELSE S3
  IN  IF authdir_mode(opt) /\ ~had_router
        THEN dirserv_set_node_flags_from_authoritative_status(S4, node,
                                                              authstatus)
        ELSE S4

\* networkstatus.c: the routerstatuses of ns with this descriptor digest;
\* router_get_consensus_status_by_descriptor_digest answers one of them,
\* or NULL when there is none
StatusesByDescriptorDigest(ns, digest) ==
  IF ns = NULL THEN {NULL}
  ELSE LET m == {ns.routerstatus_list[i] : i \in 1..Len(ns.routerstatus_list)}
           hit == {rs \in m : rs.descriptor_digest = digest}
       IN  IF hit = {} THEN {NULL} ELSE hit

\* microdesc.c: the microdesc of the cache with this digest, or NULL
microdesc_cache_lookup_by_digest256(cache, digest) ==
  LET hit == {md \in cache : md.digest = digest}
  IN  IF hit = {} THEN NULL ELSE CHOOSE md \in hit : TRUE

\* node->md->held_by_nodes-- when node->md is set
md_release(S, node) ==
  IF S.heap[node].md # NULL
    THEN [S EXCEPT !.held[S.heap[node].md] = @ - 1]
    ELSE S

\* node->md = md; md->held_by_nodes++ when md is not NULL
md_attach(S, node, md) ==
  IF md # NULL
    THEN [S EXCEPT !.heap[node].md = md, !.held[md] = @ + 1]
    ELSE [S EXCEPT !.heap[node].md = NULL]

\* mutant: the node of the routerstatus is made when there is none
Mut_nodelist_add_microdesc(S0, mdns, md, rs) ==
  IF mdns = NULL THEN S0
  ELSE LET S1 == init_nodelist(S0)
       IN  IF rs = NULL THEN S1
           ELSE LET gc == node_get_or_create(S1, rs.identity_digest)
                IN  md_attach(md_release(gc.S, gc.node), gc.node, md)

\* mdns is networkstatus_get_latest_consensus_by_flavor(FLAV_MICRODESC), rs
\* the answer of router_get_consensus_status_by_descriptor_digest
nodelist_add_microdesc(S0, mdns, md, rs) ==
  IF mdns = NULL THEN S0
  ELSE LET S1 == init_nodelist(S0)
       IN  IF rs = NULL THEN S1
           ELSE LET node == node_get_mutable_by_id(S1, rs.identity_digest)
                IN  IF node # 0
                      THEN md_attach(md_release(S1, node), node, md)
                      ELSE S1

\* mutant: an md alone makes a node usable
Mut_node_is_usable(n) == (n.rs # NULL) \/ (n.ri # NULL) \/ (n.md # NULL)

node_is_usable(n) == (n.rs # NULL) \/ (n.ri # NULL)

\* mutant: the md of the node is compared by digest, not by instance
Mut_nodelist_remove_microdesc(S, identity_digest, md) ==
  LET node == node_get_mutable_by_id(S, identity_digest)
  IN  IF node # 0 /\ S.heap[node].md # NULL
           /\ S.heap[node].md.digest = md.digest
        THEN [S EXCEPT !.heap[node].md = NULL, !.held[md] = @ - 1]
        ELSE S

nodelist_remove_microdesc(S, identity_digest, md) ==
  LET node == node_get_mutable_by_id(S, identity_digest)
  IN  IF node # 0 /\ S.heap[node].md = md
        THEN [S EXCEPT !.heap[node].md = NULL, !.held[md] = @ - 1]
        ELSE S

\* container.c: smartlist_del moves the last element into slot idx
\* (slots are numbered from 0)
smartlist_del(sl, idx) ==
  LET n == Len(sl)
  IN  [i \in 1..(n - 1) |-> IF i = idx + 1 THEN sl[n] ELSE sl[i]]

smartlist_get(sl, idx) == sl[idx + 1]

\* mutant: the index of the element moved into the slot is not rewritten
Mut_nodelist_drop_node(S0, node, remove_from_ht) ==
  LET S1 == IF remove_from_ht
              THEN [S0 EXCEPT !.nl.nodes_by_id = @ \ {node}]
              ELSE S0
      idx == S1.heap[node].nodelist_idx
      S2 == [S1 EXCEPT !.nl.nodes = smartlist_del(@, idx)]
  IN  [S2 EXCEPT !.heap[node].nodelist_idx = -1]

nodelist_drop_node(S0, node, remove_from_ht) ==
  LET S1 == IF remove_from_ht
              THEN [S0 EXCEPT !.nl.nodes_by_id = @ \ {node}]
              ELSE S0
      idx == S1.heap[node].nodelist_idx
      S2 == [S1 EXCEPT !.nl.nodes = smartlist_del(@, idx)]
      S3 == IF idx < Len(S2.nl.nodes)
              THEN [S2 EXCEPT
                      !.heap[smartlist_get(S2.nl.nodes, idx)].nodelist_idx = idx]
              ELSE S2
  IN  [S3 EXCEPT !.heap[node].nodelist_idx = -1]

\* mutant: the md of a freed node is not released
Mut_node_free(S, node) ==
  [S EXCEPT !.heap[node] = NULL,
            !.freed = @ \cup {S.heap[node].identity}]

node_free(S, node) ==
  LET S1 == md_release(S, node)
  IN  [S1 EXCEPT !.heap[node] = NULL,
                 !.freed = @ \cup {S.heap[node].identity}]

\* mutant: a node left without ri and rs is not dropped
Mut_remove_routerinfo_keeps_node(S, ri) ==
  LET node == node_get_mutable_by_id(S, ri.identity_digest)
  IN  IF node # 0 /\ S.heap[node].ri = ri
        THEN [S EXCEPT !.heap[node].ri = NULL]
        ELSE S

\* mutant: the ri of the node is not compared with the argument
Mut_nodelist_remove_routerinfo(S, ri) ==
  LET node == node_get_mutable_by_id(S, ri.identity_digest)
  IN  IF node # 0
        THEN LET S1 == [S EXCEPT !.heap[node].ri = NULL]
             IN  IF ~node_is_usable(S1.heap[node])
                   THEN node_free(nodelist_drop_node(S1, node, TRUE), node)
                   ELSE S1
        ELSE S

nodelist_remove_routerinfo(S, ri) ==
  LET node == node_get_mutable_by_id(S, ri.identity_digest)
  IN  IF node # 0 /\ S.heap[node].ri = ri
        THEN LET S1 == [S EXCEPT !.heap[node].ri = NULL]
             IN  IF ~node_is_usable(S1.heap[node])
                   THEN node_free(nodelist_drop_node(S1, node, TRUE), node)
                   ELSE S1
        ELSE S

\* mutant: a node whose md was released is not looked at again
Mut_purge_node_once(S0, node) ==
  LET n == S0.heap[node]
  IN  IF n.md # NULL /\ n.rs = NULL
        THEN [md_release(S0, node) EXCEPT !.heap[node].md = NULL]
        ELSE IF node_is_usable(n)
               THEN S0
               ELSE node_free(
                      nodelist_drop_node(
                        [S0 EXCEPT !.nl.nodes_by_id = @ \ {node}], node,
                        FALSE),
                      node)

\* mutant: the md of a node without rs is left attached
Mut_purge_node(S0, node) ==
  IF node_is_usable(S0.heap[node])
    THEN S0
    ELSE node_free(
           nodelist_drop_node(
             [S0 EXCEPT !.nl.nodes_by_id = @ \ {node}], node, FALSE),
           node)

\* mutant: the md of a node without rs is released only when the node has
\* no ri either
Mut_purge_node_md(S0, node) ==
  LET n == S0.heap[node]
      S1 == IF n.md # NULL /\ n.rs = NULL /\ n.ri = NULL
              THEN [md_release(S0, node) EXCEPT !.heap[node].md = NULL]
              ELSE S0
  IN  IF node_is_usable(S1.heap[node])
        THEN S1
        ELSE node_free(
               nodelist_drop_node(
                 [S1 EXCEPT !.nl.nodes_by_id = @ \ {node}], node, FALSE),
               node)

\* the body of the loop of nodelist_purge for the table entry node
purge_node(S0, node) ==
  LET n == S0.heap[node]
      S1 == IF n.md # NULL /\ n.rs = NULL
              THEN [md_release(S0, node) EXCEPT !.heap[node].md = NULL]
              ELSE S0
  IN  IF node_is_usable(S1.heap[node])
        THEN S1
        ELSE node_free(
               nodelist_drop_node(
                 [S1 EXCEPT !.nl.nodes_by_id = @ \ {node}], node, FALSE),
               node)

RECURSIVE purge_loop(_, _, _)
purge_loop(S, order, i) ==
  IF i > Len(order) THEN S
  ELSE purge_loop(purge_node(S, order[i]), order, i + 1)

\* order is the order in which HT_START/HT_NEXT visit the table
nodelist_purge(S, order) ==
  IF S.nl = NULL THEN S ELSE purge_loop(S, order, 1)

\* the orders in which a hash table holding the objects hs can be visited
RECURSIVE Orders(_)
Orders(hs) ==
  IF hs = {} THEN {<<>>}
  ELSE UNION {{<<o>> \o rest : rest \in Orders(hs \ {o})} : o \in hs}

HtOrders(S) == IF S.nl = NULL THEN {<<>>} ELSE Orders(S.nl.nodes_by_id)

RECURSIVE free_all_loop(_, _, _)
free_all_loop(S, sl, i) ==
  IF i > Len(sl) THEN S
  ELSE free_all_loop(
         node_free([S EXCEPT !.heap[sl[i]].nodelist_idx = -1], sl[i]),
         sl, i + 1)

\* mutant: the nodes are freed without releasing their mds
Mut_nodelist_free_all(S) ==
  IF S.nl = NULL THEN S
  ELSE [S EXCEPT !.nl = NULL,
                 !.heap = [o \in Objs |->
                             IF o \in S.nl.nodes_by_id THEN NULL ELSE @[o]],
                 !.freed = @ \cup {S.heap[o].identity : o \in S.nl.nodes_by_id}]

nodelist_free_all(S) ==
  IF S.nl = NULL THEN S
  ELSE LET S1 == [S EXCEPT !.nl.nodes_by_id = {}]
           S2 == free_all_loop(S1, S1.nl.nodes, 1)
       IN  [S2 EXCEPT !.nl = NULL]

tor_addr_is_null(addr) == addr = 0

\* mutant: a node that has an md keeps it whatever its digest
Mut_set_consensus_md(S, cache, node, rs) ==
  IF S.heap[node].md = NULL
    THEN md_attach(md_release(S, node), node,
           microdesc_cache_lookup_by_digest256(cache, rs.descriptor_digest))
    ELSE S

\* lines 275-284: the md of node under a microdesc-flavored consensus
set_consensus_md(S, cache, node, rs) ==
  LET md == S.heap[node].md
  IN  IF md = NULL \/ md.digest # rs.descriptor_digest
        THEN md_attach(md_release(S, node), node,
               microdesc_cache_lookup_by_digest256(cache,
                                                   rs.descriptor_digest))
        ELSE S

\* mutant: is_exit is copied from the BadExit flag
Mut_set_consensus_flags(S, opt, node, rs) ==
  LET md == S.heap[node].md
  IN  [S EXCEPT
         !.heap[node].is_valid = rs.is_valid,
         !.heap[node].is_running = rs.is_flagged_running,
         !.heap[node].is_fast = rs.is_fast,
         !.heap[node].is_stable = rs.is_stable,
         !.heap[node].is_possible_guard = rs.is_possible_guard,
         !.heap[node].is_exit = rs.is_bad_exit,
         !.heap[node].is_bad_exit = rs.is_bad_exit,
         !.heap[node].is_hs_dir = rs.is_hs_dir,
         !.heap[node].ipv6_preferred =
            /\ fascist_firewall_prefer_ipv6_orport(opt)
            /\ \/ ~tor_addr_is_null(rs.ipv6_addr)
               \/ (md # NULL /\ ~tor_addr_is_null(md.ipv6_addr))]

\* lines 287-302: the flags of node are those of rs
set_consensus_flags(S, opt, node, rs) ==
  LET md == S.heap[node].md
  IN  [S EXCEPT
         !.heap[node].is_valid = rs.is_valid,
         !.heap[node].is_running = rs.is_flagged_running,
         !.heap[node].is_fast = rs.is_fast,
         !.heap[node].is_stable = rs.is_stable,
         !.heap[node].is_possible_guard = rs.is_possible_guard,
         !.heap[node].is_exit = rs.is_exit,
         !.heap[node].is_bad_exit = rs.is_bad_exit,
         !.heap[node].is_hs_dir = rs.is_hs_dir,
         !.heap[node].ipv6_preferred =
            /\ fascist_firewall_prefer_ipv6_orport(opt)
            /\ \/ ~tor_addr_is_null(rs.ipv6_addr)
               \/ (md # NULL /\ ~tor_addr_is_null(md.ipv6_addr))]

\* lines 271-305 of nodelist_set_consensus for one routerstatus
set_consensus_rs(S0, opt, cache, flavor, rs) ==
  LET gc == node_get_or_create(S0, rs.identity_digest)
      node == gc.node
      S1 == [gc.S EXCEPT !.heap[node].rs = rs]
      S2 == IF flavor = FLAV_MICRODESC
              THEN set_consensus_md(S1, cache, node, rs)
              ELSE S1
      S3 == node_set_country(S2, node)
  IN  IF ~authdir_mode_v3(opt)
        THEN set_consensus_flags(S3, opt, node, rs)
        ELSE S3

RECURSIVE set_consensus_loop(_, _, _, _, _)
set_consensus_loop(S, opt, cache, ns, i) ==
  IF i > Len(ns.routerstatus_list) THEN S
  ELSE set_consensus_loop(
         set_consensus_rs(S, opt, cache, ns.flavor, ns.routerstatus_list[i]),
         opt, cache, ns, i + 1)

\* mutant: the routerstatuses of the old consensus are not cleared
Mut_clear_rs(S) == S

\* line 268: node->rs = NULL for every node of the list
clear_rs(S) ==
  [S EXCEPT !.heap = [o \in Objs |->
     IF \E i \in 1..Len(S.nl.nodes) : S.nl.nodes[i] = o
       THEN [S.heap[o] EXCEPT !.rs = NULL]
       ELSE S.heap[o]]]

\* lines 264-305: the nodelist when nodelist_purge is called
set_consensus_attach(S0, opt, cache, ns) ==
  set_consensus_loop(clear_rs(init_nodelist(S0)), opt, cache, ns, 1)

\* mutant: is_running and ipv6_preferred are not cleared
Mut_clear_flags(S, opt) ==
  IF authdir_mode_v3(opt) THEN S
  ELSE [S EXCEPT !.heap = [o \in Objs |->
     IF /\ \E i \in 1..Len(S.nl.nodes) : S.nl.nodes[i] = o
        /\ S.heap[o].rs = NULL
        /\ S.heap[o].ri # NULL
        /\ S.heap[o].ri.purpose = ROUTER_PURPOSE_GENERAL
       THEN [S.heap[o] EXCEPT
               !.is_valid = FALSE,
               !.is_hs_dir = FALSE, !.is_fast = FALSE, !.is_stable = FALSE,
               !.is_possible_guard = FALSE, !.is_exit = FALSE,
               !.is_bad_exit = FALSE]
       ELSE S.heap[o]]]

\* lines 309-325: the flags of the nodes the consensus does not list
clear_flags(S, opt) ==
  IF authdir_mode_v3(opt) THEN S
  ELSE [S EXCEPT !.heap = [o \in Objs |->
     IF /\ \E i \in 1..Len(S.nl.nodes) : S.nl.nodes[i] = o
        /\ S.heap[o].rs = NULL
        /\ S.heap[o].ri # NULL
        /\ S.heap[o].ri.purpose = ROUTER_PURPOSE_GENERAL
       THEN [S.heap[o] EXCEPT
               !.is_valid = FALSE, !.is_running = FALSE,
               !.is_hs_dir = FALSE, !.is_fast = FALSE, !.is_stable = FALSE,
               !.is_possible_guard = FALSE, !.is_exit = FALSE,
               !.is_bad_exit = FALSE, !.ipv6_preferred = FALSE]
       ELSE S.heap[o]]]

nodelist_set_consensus(S0, opt, cache, ns, order) ==
  clear_flags(nodelist_purge(set_consensus_attach(S0, opt, cache, ns), order),
              opt)

(***************************************************************************)
(* The inputs: routerinfos, microdescs and consensus documents.            *)
(***************************************************************************)
RsTemplates(digests, addrs, ipv6s, flagsets) ==
  [descriptor_digest : digests, addr : addrs, ipv6_addr : ipv6s,
   flags : flagsets]

\* which identities a consensus lists, and with what
Listings(templates) == [Ids -> {NULL} \cup templates]

\* the routerstatus of a listed identity; the nickname is that of the
\* router unless the listing names another
rs_of_listing(obj, id, l) ==
  LET rs == RouterStatus(obj, id, l.descriptor_digest, l.addr, l.ipv6_addr,
                         l.flags)
  IN  IF "nickname" \in DOMAIN l
        THEN [rs EXCEPT !.nickname = l.nickname]
        ELSE rs

RECURSIVE routerstatus_list(_, _, _)
routerstatus_list(obj, listing, id) ==
  IF id > MaxId THEN <<>>
  ELSE (IF listing[id] = NULL THEN <<>>
        ELSE <<rs_of_listing(obj, id, listing[id])>>)
       \o routerstatus_list(obj, listing, id + 1)

\* a networkstatus_t: the routerstatus_list is sorted by identity and lists
\* an identity at most once
Consensus(obj, flavor, listing) ==
  [obj |-> obj, flavor |-> flavor,
   routerstatus_list |-> routerstatus_list(obj, listing, 1)]

\* the object of a newly parsed consensus: the lowest one that is not a
\* consensus alive when it is parsed
FreshNs ==
  LET alive == {ns.obj : ns \in {cur_ns, md_ns} \ {NULL}}
  IN  CHOOSE o \in NsObjs \ alive : \A p \in NsObjs \ alive : o <= p

AllMicrodescs == {Microdesc(d, a) : d \in Digests, a \in 0..1}

(***************************************************************************)
(* The operations.                                                         *)
(***************************************************************************)
Current == [nl |-> the_nodelist, heap |-> heap, held |-> held_by_nodes,
            created |-> {}, freed |-> {}]

Commit(S) ==
  /\ the_nodelist' = S.nl
  /\ heap' = S.heap
  /\ held_by_nodes' = S.held

node_get_by_id_now(id) == node_get_mutable_by_id(Current, id)

\* routerlist.c adds ri; authstatus is what dirserv_router_get_status
\* answers for it (read on an authority only)
SetRouterinfo(ri, authstatus) ==
  /\ authstatus \in AuthStatuses
  /\ authdir_mode(options) \/ authstatus = {}
  /\ Commit(nodelist_set_routerinfo(Current, options, ri, authstatus))
  /\ UNCHANGED <<md_cache, cur_ns, md_ns, options, dirinfo, accessed>>

RemoveRouterinfo(ri) ==
  /\ Commit(nodelist_remove_routerinfo(Current, ri))
  /\ UNCHANGED <<md_cache, cur_ns, md_ns, options, dirinfo, accessed>>

\* microdesc.c adds md to the cache (which holds one microdesc per digest)
\* and reports it
AddMicrodesc(md) ==
  /\ \A m \in md_cache : m.digest = md.digest => m = md
  /\ md_cache' = md_cache \cup {md}
  /\ \E rs \in StatusesByDescriptorDigest(md_ns, md.digest) :
       Commit(nodelist_add_microdesc(Current, md_ns, md, rs))
  /\ UNCHANGED <<cur_ns, md_ns, options, dirinfo, accessed>>

\* the removal of md is reported for identity id; the cache lets go of a
\* microdesc that no node holds
RemoveMicrodesc(id, md) ==
  LET S == nodelist_remove_microdesc(Current, id, md)
  IN  /\ md \in md_cache
      /\ Commit(S)
      /\ md_cache' = IF S.held[md] = 0 THEN md_cache \ {md} ELSE md_cache
      /\ UNCHANGED <<cur_ns, md_ns, options, dirinfo, accessed>>

\* networkstatus.c installs a new usable consensus and tells the nodelist
SetConsensus(flavor, listing) ==
  LET ns == Consensus(FreshNs, flavor, listing)
  IN  /\ \E order \in HtOrders(set_consensus_attach(Current, options,
                                                    md_cache, ns)) :
           Commit(nodelist_set_consensus(Current, options, md_cache, ns,
                                         order))
      /\ cur_ns' = ns
      /\ md_ns' = IF flavor = FLAV_MICRODESC THEN ns ELSE md_ns
      /\ UNCHANGED <<md_cache, options, dirinfo, accessed>>

Purge ==
  /\ \E order \in HtOrders(Current) :
       Commit(nodelist_purge(Current, order))
  /\ UNCHANGED <<md_cache, cur_ns, md_ns, options, dirinfo, accessed>>

FreeAll ==
  /\ Commit(nodelist_free_all(Current))
  /\ UNCHANGED <<md_cache, cur_ns, md_ns, options, dirinfo, accessed>>

\* dirserv.c: dirserv_orconn_tls_done on an authority, when the router with
\* identity id was reached at time now over IPv4 or over IPv6
MarkReachable(id, now, is_ipv6) ==
  LET node == node_get_by_id_now(id)
  IN  /\ authdir_mode(options)
      /\ node # 0
      /\ heap[node].ri # NULL
      /\ heap' = IF is_ipv6
                   THEN [heap EXCEPT ![node].last_reachable6 = now]
                   ELSE [heap EXCEPT ![node].last_reachable = now]
      /\ UNCHANGED <<the_nodelist, held_by_nodes, md_cache, cur_ns, md_ns,
                     options, dirinfo, accessed>>

\* router_dir_info_changed (rend_hsdir_routers_changed is another module's);
\* the other variables of the estimator are left to the caller
router_dir_info_changed ==
  /\ need_to_update_have_min_dir_info' = TRUE
  /\ n_updates' = 0

\* mutant: router_set_status reports a change of the directory whenever the
\* node exists
Mut_RouterSetStatus(digest, up) ==
  LET node == node_get_by_id_now(digest)
  IN  /\ IF node # 0
           THEN /\ router_dir_info_changed
                /\ heap' = [heap EXCEPT ![node].is_running = up]
           ELSE UNCHANGED <<heap, need_to_update_have_min_dir_info,
                            n_updates>>
      /\ UNCHANGED <<the_nodelist, held_by_nodes, md_cache, cur_ns, md_ns,
                     options, have_min_dir_info, have_consensus_path,
                     dir_info_status, logged_delay, control_events,
                     last_client_status, accessed>>

\* router_set_status(digest, up); the is_running of the dir_server_t lists
\* belongs to routerlist.c
RouterSetStatus(digest, up) ==
  LET node == node_get_by_id_now(digest)
  IN  /\ IF node # 0
           THEN /\ IF heap[node].is_running # up
                     THEN router_dir_info_changed
                     ELSE UNCHANGED <<need_to_update_have_min_dir_info,
                                      n_updates>>
                /\ heap' = [heap EXCEPT ![node].is_running = up]
           ELSE UNCHANGED <<heap, need_to_update_have_min_dir_info,
                            n_updates>>
      /\ UNCHANGED <<the_nodelist, held_by_nodes, md_cache, cur_ns, md_ns,
                     options, have_min_dir_info, have_consensus_path,
                     dir_info_status, logged_delay, control_events,
                     last_client_status, accessed>>

\* the module that caches in node->rejects_all that the exit policy of the
\* node's descriptor is reject *:* (the bit is read by
\* node_exit_policy_rejects_all and written nowhere in nodelist.c)
CacheRejectsAll(id) ==
  LET node == node_get_by_id_now(id)
  IN  /\ node # 0
      /\ heap[node].ri # NULL
      /\ heap' = [heap EXCEPT ![node].rejects_all = TRUE]
      /\ UNCHANGED <<the_nodelist, held_by_nodes, md_cache, cur_ns, md_ns,
                     options, dirinfo, accessed>>

(***************************************************************************)
(* The readiness estimator.  A fraction is a pair of naturals n/d; the     *)
(* answers of the other modules that a call reads are its inputs:          *)
(*   delay, msg   what should_delay_dir_fetches answers                    *)
(*   live         whether the latest consensus is reasonably live now      *)
(*   guards_ok    entry_guards_have_enough_dir_info_to_build_circuits()    *)
(*   param        min_paths_for_circs_pct of the consensus ({}: not set)   *)
(*   routerlist   the descriptor digests the routerlist has                *)
(***************************************************************************)
Range(s) == {s[i] : i \in 1..Len(s)}
\* the element of a set of one element
Only(S) == CHOOSE x \in S : TRUE
Frac(n, d) == [n |-> n, d |-> d]
FracLess(a, b) == a.n * b.d < b.n * a.d
FracTimes(a, b) == Frac(a.n * b.n, a.d * b.d)
\* (int)(f*100)
Percent(f) == (f.n * 100) \div f.d

\* networkstatus.c: a client uses the routers the consensus says are running
client_would_use_router(rs) == rs.is_flagged_running

\* routerset.c: a routerset_t that names identities
Routerset(ids) == [identities |-> ids]
routerset_contains_routerstatus(set, rs) ==
  rs.identity_digest \in set.identities

\* policies.c
short_policy_is_reject_star(policy) == policy.accept = {}

\* networkstatus.c: the parameter of the consensus, or the default, kept
\* within the bounds
networkstatus_get_param(param, default, min_val, max_val) ==
  IF param = {} THEN default
  ELSE LET val == CHOOSE v \in param : TRUE
       IN  IF val < min_val THEN min_val
           ELSE IF val > max_val THEN max_val
           ELSE val

networkstatus_get_latest_consensus == cur_ns
networkstatus_get_reasonably_live_consensus(live) ==
  IF cur_ns # NULL /\ live THEN cur_ns ELSE NULL

node_has_descriptor(node) ==
  node.ri # NULL \/ (node.rs # NULL /\ node.md # NULL)

\* node_exit_policy_rejects_all answering that a node without ri and md
\* rejects nothing
Mut_node_exit_policy_rejects_all(node) ==
  IF node.rejects_all THEN TRUE
  ELSE IF node.ri # NULL THEN node.ri.policy_is_reject_star
  ELSE IF node.md # NULL
    THEN node.md.exit_policy = NULL
           \/ short_policy_is_reject_star(node.md.exit_policy)
  ELSE FALSE

node_exit_policy_rejects_all(node) ==
  IF node.rejects_all THEN TRUE
  ELSE IF node.ri # NULL THEN node.ri.policy_is_reject_star
  ELSE IF node.md # NULL
    THEN node.md.exit_policy = NULL
           \/ short_policy_is_reject_star(node.md.exit_policy)
  ELSE TRUE

\* routerlist.c: the fraction of the nodes of sl that have a descriptor,
\* every node weighing the same; none of an empty list
frac_nodes_with_descriptors(sl) ==
  IF Len(sl) = 0 THEN Frac(0, 1)
  ELSE Frac(Cardinality({i \in 1..Len(sl) : node_has_descriptor(heap[sl[i]])}),
            Len(sl))

\* count_usable_descriptors, counting as usable only the routers whose
\* descriptor is present
Mut_count_usable_descriptors(consensus, in_set, exit_only, routerlist) ==
  LET md == consensus.flavor = FLAV_MICRODESC
      Present(rs) ==
        IF md THEN \E m \in md_cache : m.digest = rs.descriptor_digest
        ELSE rs.descriptor_digest \in routerlist
      Counted(rs) ==
        /\ node_get_by_id_now(rs.identity_digest) # 0
        /\ ~(exit_only /\ ~rs.is_exit)
        /\ ~(in_set # NULL /\ ~routerset_contains_routerstatus(in_set, rs))
        /\ client_would_use_router(rs)
        /\ Present(rs)
      usable == SelectSeq(consensus.routerstatus_list, Counted)
  IN  [num_present |-> Len(usable),
       num_usable |-> Len(usable),
       descs |-> [i \in 1..Len(usable) |->
                    node_get_by_id_now(usable[i].identity_digest)]]

\* in_set is a routerset or NULL, exit_only is whether the call is made with
\* USABLE_DESCRIPTOR_EXIT_ONLY; descs is descs_out
count_usable_descriptors(consensus, in_set, exit_only, routerlist) ==
  LET md == consensus.flavor = FLAV_MICRODESC
      Counted(rs) ==
        /\ node_get_by_id_now(rs.identity_digest) # 0
        /\ ~(exit_only /\ ~rs.is_exit)
        /\ ~(in_set # NULL /\ ~routerset_contains_routerstatus(in_set, rs))
        /\ client_would_use_router(rs)
      Present(rs) ==
        IF md THEN \E m \in md_cache : m.digest = rs.descriptor_digest
        ELSE rs.descriptor_digest \in routerlist
      usable == SelectSeq(consensus.routerstatus_list, Counted)
  IN  [num_present |-> Len(SelectSeq(usable, Present)),
       num_usable |-> Len(usable),
       descs |-> [i \in 1..Len(usable) |->
                    node_get_by_id_now(usable[i].identity_digest)]]

\* the guards when EntryNodes is not set
guards_of(mid, authdir) ==
  LET IsGuard(node) ==
        IF authdir
          THEN heap[node].rs # NULL /\ heap[node].rs.is_possible_guard
          ELSE heap[node].is_possible_guard
  IN  SelectSeq(mid, IsGuard)

\* f_myexit of the ExitNodes option
frac_myexit(consensus, opt, routerlist) ==
  LET myexits ==
        count_usable_descriptors(consensus, opt.ExitNodes, TRUE,
                                 routerlist).descs
      unflagged ==
        count_usable_descriptors(consensus, opt.ExitNodes, FALSE,
                                 routerlist).descs
      Kept(node) == ~(node_has_descriptor(heap[node])
                        /\ node_exit_policy_rejects_all(heap[node]))
      myexits_unflagged == SelectSeq(unflagged, Kept)
  IN  IF Len(myexits) = 0 /\ Len(myexits_unflagged) # 0
        THEN frac_nodes_with_descriptors(myexits_unflagged)
        ELSE frac_nodes_with_descriptors(myexits)

\* force_f_exit, forcing nothing
Mut_force_f_exit(path, f_exit) == f_exit

\* if the consensus has no exits, treat the exit fraction as 100%
force_f_exit(path, f_exit) ==
  IF path # CONSENSUS_PATH_EXIT THEN Frac(1, 1) ELSE f_exit

\* least_f_exit, taking the fraction of ExitNodes always
Mut_least_f_exit(f_exit, f_myexit) == f_myexit

\* if (f_myexit < f_exit) f_exit = f_myexit
least_f_exit(f_exit, f_myexit) ==
  IF FracLess(f_myexit, f_exit) THEN f_myexit ELSE f_exit

\* answers f_path, *num_present_out, *num_usable_out, *status_out and the
\* have_consensus_path it leaves (and its f_guard, f_mid and f_exit)
compute_frac_paths_available(consensus, opt, routerlist) ==
  LET authdir == authdir_mode_v3(opt)
      all == count_usable_descriptors(consensus, NULL, FALSE, routerlist)
      mid == all.descs
      guards ==
        IF opt.EntryNodes # NULL
          THEN count_usable_descriptors(consensus, opt.EntryNodes, FALSE,
                                        routerlist).descs
          ELSE guards_of(mid, authdir)
      ex == count_usable_descriptors(consensus, NULL, TRUE, routerlist)
      exits == ex.descs
      path == IF ex.num_usable > 0 THEN CONSENSUS_PATH_EXIT
              ELSE CONSENSUS_PATH_INTERNAL
      f_guard == frac_nodes_with_descriptors(guards)
      f_mid == frac_nodes_with_descriptors(mid)
      f_exit0 == frac_nodes_with_descriptors(exits)
      f_myexit == frac_myexit(consensus, opt, routerlist)
      f_exit1 == IF opt.ExitNodes # NULL
                   THEN least_f_exit(f_exit0, f_myexit) ELSE f_exit0
      f_exit == force_f_exit(path, f_exit1)
      f_path == FracTimes(FracTimes(f_guard, f_mid), f_exit)
  IN  [f_path |-> f_path,
       f_guard |-> f_guard, f_mid |-> f_mid, f_exit |-> f_exit,
       num_present |-> all.num_present,
       num_usable |-> all.num_usable,
       have_consensus_path |-> path,
       status |->
         ToString(Percent(f_guard)) \o "% of guards bw, "
           \o ToString(Percent(f_mid)) \o "% of midpoint bw, and "
           \o ToString(Percent(f_exit)) \o "% of exit bw"
           \o (IF path = CONSENSUS_PATH_EXIT THEN ""
               ELSE " (no exits in consensus)")
           \o " = " \o ToString(Percent(f_path)) \o "% of path bw"]

\* get_frac_paths_needed_for_circs, reading the consensus only
Mut_get_frac_paths_needed_for_circs(opt, param) ==
  networkstatus_get_param(param, 60, 25, 95)

\* in percent
get_frac_paths_needed_for_circs(opt, param) ==
  IF opt.PathsNeededToBuildCircuits >= 0
    THEN opt.PathsNeededToBuildCircuits
    ELSE networkstatus_get_param(param, 60, 25, 95)

\* the estimator as a value: the static variables of the module, the
\* controller events emitted (events), and whether
\* update_router_have_minimum_dir_info (updated) and
\* compute_frac_paths_available (counted) ran
Estimator ==
  [have_min_dir_info |-> have_min_dir_info,
   have_consensus_path |-> have_consensus_path,
   need_to_update_have_min_dir_info |-> need_to_update_have_min_dir_info,
   dir_info_status |-> dir_info_status,
   logged_delay |-> logged_delay,
   events |-> <<>>, updated |-> FALSE, counted |-> FALSE, result |-> FALSE]

\* update_done, leaving need_to_update_have_min_dir_info as it is
Mut_update_done(E, res) ==
  LET E1 == IF res /\ ~E.have_min_dir_info
              THEN [E EXCEPT !.events = @ \o <<"ENOUGH_DIR_INFO",
                                               "BOOTSTRAP_STATUS_CONN_OR">>]
              ELSE E
      E2 == IF ~res /\ E1.have_min_dir_info
              THEN [E1 EXCEPT
                      !.have_consensus_path = CONSENSUS_PATH_UNKNOWN,
                      !.events = @ \o <<"NOT_ENOUGH_DIR_INFO">>]
              ELSE E1
  IN  [E2 EXCEPT !.have_min_dir_info = res]

\* update_done, reporting NOT_ENOUGH_DIR_INFO whenever the result is false
Mut_update_done_events(E, res) ==
  LET E1 == IF res /\ ~E.have_min_dir_info
              THEN [E EXCEPT !.events = @ \o <<"ENOUGH_DIR_INFO",
                                               "BOOTSTRAP_STATUS_CONN_OR">>]
              ELSE E
      E2 == IF ~res
              THEN [E1 EXCEPT
                      !.have_consensus_path = CONSENSUS_PATH_UNKNOWN,
                      !.events = @ \o <<"NOT_ENOUGH_DIR_INFO">>]
              ELSE E1
  IN  [E2 EXCEPT !.have_min_dir_info = res,
                 !.need_to_update_have_min_dir_info = FALSE]

\* update_done, forgetting the consensus path when the paths have just
\* become available
Mut_update_done_path(E, res) ==
  LET E1 == IF res /\ ~E.have_min_dir_info
              THEN [E EXCEPT
                      !.have_consensus_path = CONSENSUS_PATH_UNKNOWN,
                      !.events = @ \o <<"ENOUGH_DIR_INFO",
                                        "BOOTSTRAP_STATUS_CONN_OR">>]
              ELSE E
      E2 == IF ~res /\ E1.have_min_dir_info
              THEN [E1 EXCEPT !.events = @ \o <<"NOT_ENOUGH_DIR_INFO">>]
              ELSE E1
  IN  [E2 EXCEPT !.have_min_dir_info = res,
                 !.need_to_update_have_min_dir_info = FALSE]

\* the end of update_router_have_minimum_dir_info, from the label done
update_done(E, res) ==
  LET E1 == IF res /\ ~E.have_min_dir_info
              THEN [E EXCEPT !.events = @ \o <<"ENOUGH_DIR_INFO",
                                               "BOOTSTRAP_STATUS_CONN_OR">>]
              ELSE E
      E2 == IF ~res /\ E1.have_min_dir_info
              THEN [E1 EXCEPT
                      !.have_consensus_path = CONSENSUS_PATH_UNKNOWN,
                      !.events = @ \o <<"NOT_ENOUGH_DIR_INFO">>]
              ELSE E1
  IN  [E2 EXCEPT !.have_min_dir_info = res,
                 !.need_to_update_have_min_dir_info = FALSE]

\* no_live_consensus, with one status string
Mut_no_live_consensus(U) ==
  update_done([U EXCEPT !.dir_info_status = "We have no usable consensus."],
              FALSE)

\* update_router_have_minimum_dir_info when there is no reasonably live
\* consensus
no_live_consensus(U) ==
  update_done(
    [U EXCEPT !.dir_info_status =
       IF networkstatus_get_latest_consensus = NULL
         THEN "We have no usable consensus."
         ELSE "We have no recent usable consensus."],
    FALSE)

\* missing_guards, after the paths were counted and found without exits
Mut_missing_guards(U) ==
  update_done(
    [U EXCEPT !.dir_info_status =
                "We're missing descriptors for some of our "
                  \o "primary entry guards",
              !.counted = TRUE,
              !.have_consensus_path = CONSENSUS_PATH_INTERNAL],
    FALSE)

\* update_router_have_minimum_dir_info when the entry guards lack
\* descriptors
missing_guards(U) ==
  update_done(
    [U EXCEPT !.dir_info_status =
                "We're missing descriptors for some of our "
                  \o "primary entry guards"],
    FALSE)

update_router_have_minimum_dir_info(E, opt, env) ==
  LET consensus == networkstatus_get_reasonably_live_consensus(env.live)
      U == [E EXCEPT !.updated = TRUE]
  IN  IF consensus = NULL THEN no_live_consensus(U)
      ELSE IF ~env.guards_ok THEN missing_guards(U)
      ELSE
        LET using_md == consensus.flavor = FLAV_MICRODESC
            Checked(c) ==
              LET C == [U EXCEPT
                          !.counted = TRUE,
                          !.have_consensus_path = c.have_consensus_path]
              IN  IF c.f_path.n * 100
                       < get_frac_paths_needed_for_circs(opt, env.param)
                           * c.f_path.d
                    THEN update_done(
                           [C EXCEPT
                              !.dir_info_status =
                                "We need more "
                                  \o (IF using_md THEN "micro" ELSE "")
                                  \o "descriptors: we have "
                                  \o ToString(c.num_present) \o "/"
                                  \o ToString(c.num_usable)
                                  \o ", and can only build "
                                  \o ToString(Percent(c.f_path))
                                  \o "% of likely paths. (We have "
                                  \o c.status \o ".)",
                              !.events =
                                @ \o <<"BOOTSTRAP_STATUS_REQUESTING_DESCRIPTORS">>],
                           FALSE)
                    ELSE update_done(C, TRUE)
        IN  Only({Checked(c) :
                    c \in {compute_frac_paths_available(consensus, opt,
                                                        env.routerlist)}})

\* router_have_minimum_dir_info, asking should_delay_dir_fetches only when
\* there is nothing to recompute
Mut_router_have_minimum_dir_info(E, opt, env) ==
  IF env.delay /\ ~E.need_to_update_have_min_dir_info
    THEN [E EXCEPT !.logged_delay = TRUE,
                   !.dir_info_status = env.msg,
                   !.result = FALSE]
    ELSE LET E1 == [E EXCEPT !.logged_delay = FALSE]
             E2 == IF E1.need_to_update_have_min_dir_info
                     THEN update_router_have_minimum_dir_info(E1, opt, env)
                     ELSE E1
         IN  Only({[e EXCEPT !.result = e.have_min_dir_info] : e \in {E2}})

router_have_minimum_dir_info(E, opt, env) ==
  IF env.delay
    THEN [E EXCEPT !.logged_delay = TRUE,
                   !.dir_info_status = env.msg,
                   !.result = FALSE]
    ELSE LET E1 == [E EXCEPT !.logged_delay = FALSE]
             E2 == IF E1.need_to_update_have_min_dir_info
                     THEN update_router_have_minimum_dir_info(E1, opt, env)
                     ELSE E1
         IN  Only({[e EXCEPT !.result = e.have_min_dir_info] : e \in {E2}})

\* BOOTSTRAP_STATUS_LOADING_DESCRIPTORS is 50, BOOTSTRAP_STATUS_CONN_OR 80
count_loading_descriptors_progress(E, opt, env) ==
  LET consensus == networkstatus_get_reasonably_live_consensus(env.live)
  IN  IF consensus = NULL THEN [E EXCEPT !.result = 0]
      ELSE
        LET needed == get_frac_paths_needed_for_circs(opt, env.param)
            Progress(c) ==
              LET C == [E EXCEPT
                          !.counted = TRUE,
                          !.have_consensus_path = c.have_consensus_path]
              IN  IF c.f_path.n * 100 > needed * c.f_path.d
                    THEN [C EXCEPT !.result = 0]
                    ELSE [C EXCEPT !.result =
                            50 + (c.f_path.n * 100 * (80 - 1 - 50))
                                   \div (needed * c.f_path.d)]
        IN  Only({Progress(c) :
                    c \in {compute_frac_paths_available(consensus, opt,
                                                        env.routerlist)}})

\* what a call leaves in the variables: the events of the call, the last
\* client status event, the recomputations since router_dir_info_changed
CommitEstimator(E) ==
  /\ have_min_dir_info' = E.have_min_dir_info
  /\ have_consensus_path' = E.have_consensus_path
  /\ need_to_update_have_min_dir_info' = E.need_to_update_have_min_dir_info
  /\ dir_info_status' = E.dir_info_status
  /\ logged_delay' = E.logged_delay
  /\ control_events' = E.events
  /\ last_client_status' =
       IF "NOT_ENOUGH_DIR_INFO" \in Range(E.events)
         THEN "NOT_ENOUGH_DIR_INFO"
       ELSE IF "ENOUGH_DIR_INFO" \in Range(E.events) THEN "ENOUGH_DIR_INFO"
       ELSE last_client_status
  /\ n_updates' = IF E.updated /\ n_updates < MaxUpdates
                    THEN n_updates + 1 ELSE n_updates

RouterHaveMinimumDirInfo(env) ==
  /\ \E E \in {router_have_minimum_dir_info(Estimator, options, env)} :
       CommitEstimator(E)
  /\ UNCHANGED <<the_nodelist, heap, held_by_nodes, md_cache, cur_ns, md_ns,
                 options, accessed>>

CountLoadingDescriptorsProgress(env) ==
  /\ \E E \in {count_loading_descriptors_progress(Estimator, options, env)} :
       CommitEstimator(E)
  /\ UNCHANGED <<the_nodelist, heap, held_by_nodes, md_cache, cur_ns, md_ns,
                 options, accessed>>

\* the modules that change the directory report it
RouterDirInfoChanged ==
  /\ router_dir_info_changed
  /\ UNCHANGED <<the_nodelist, heap, held_by_nodes, md_cache, cur_ns, md_ns,
                 options, have_min_dir_info, have_consensus_path,
                 dir_info_status, logged_delay, control_events,
                 last_client_status, accessed>>

(***************************************************************************)
(* The accessors of a node.  An address and port that an accessor hands    *)
(* out is the record of the family, the address and the port; a string     *)
(* that it returns is the record CStr of the string, or NULL.              *)
(***************************************************************************)
CStr(s) == [str |-> s]
AddrPort(family, addr, port) == [addr |-> addr, family |-> family, port |-> port]

\* tor_addr_make_null(&ap_out->addr, family) and ap_out->port = 0
NullAddrPort4 == AddrPort("AF_INET", 0, 0)
NullAddrPort6 == AddrPort("AF_INET6", 0, 0)

\* address.c: an address and port are valid when neither is zero
tor_addr_port_is_valid(addr, port) == addr # 0 /\ port # 0
tor_addr_port_is_valid_ipv4h(addr, port) == addr # 0 /\ port # 0

Mut_node_get_nickname(node) ==
  IF node.ri # NULL THEN CStr(node.ri.nickname)
  ELSE IF node.rs # NULL THEN CStr(node.rs.nickname)
  ELSE NULL

node_get_nickname(node) ==
  IF node.rs # NULL THEN CStr(node.rs.nickname)
  ELSE IF node.ri # NULL THEN CStr(node.ri.nickname)
  ELSE NULL

node_is_dir(node) ==
  IF node.rs # NULL THEN node.rs.is_v2_dir
  ELSE IF node.ri # NULL THEN node.ri.supports_tunnelled_dir_requests
  ELSE FALSE

\* RETURN_IPV4_AP(r, port_field, ap_out): whether it returns
RETURN_IPV4_AP(r) ==
  r # NULL /\ tor_addr_port_is_valid_ipv4h(r.addr, r.or_port)

\* the result is the value returned and *ap_out
node_get_prim_orport(node) ==
  IF RETURN_IPV4_AP(node.ri)
    THEN [ret |-> 0, ap |-> AddrPort("AF_INET", node.ri.addr, node.ri.or_port)]
  ELSE IF RETURN_IPV4_AP(node.rs)
    THEN [ret |-> 0, ap |-> AddrPort("AF_INET", node.rs.addr, node.rs.or_port)]
  ELSE [ret |-> -1, ap |-> NullAddrPort4]

node_get_pref_ipv6_orport(node) ==
  IF node.ri # NULL
     /\ tor_addr_port_is_valid(node.ri.ipv6_addr, node.ri.ipv6_orport)
    THEN AddrPort("AF_INET6", node.ri.ipv6_addr, node.ri.ipv6_orport)
  ELSE IF node.rs # NULL
          /\ tor_addr_port_is_valid(node.rs.ipv6_addr, node.rs.ipv6_orport)
    THEN AddrPort("AF_INET6", node.rs.ipv6_addr, node.rs.ipv6_orport)
  ELSE IF node.md # NULL
          /\ tor_addr_port_is_valid(node.md.ipv6_addr, node.md.ipv6_orport)
    THEN AddrPort("AF_INET6", node.md.ipv6_addr, node.md.ipv6_orport)
  ELSE NullAddrPort6

\* the Ed25519 key k (0 the all-zero key)
EdKey(k) == [key |-> k]

\* ed25519_public_key_is_zero(pk)
ed25519_public_key_is_zero(pk) == pk.key = 0

\* a signing key of all zeros is a BUG(): the md is tried instead
node_get_ed25519_id(node) ==
  IF /\ node.ri # NULL
     /\ node.ri.signing_key_cert # NULL
     /\ ~ed25519_public_key_is_zero(EdKey(node.ri.signing_key_cert.signing_key))
    THEN EdKey(node.ri.signing_key_cert.signing_key)
  ELSE IF node.md # NULL /\ node.md.ed25519_identity_pkey # NULL
    THEN node.md.ed25519_identity_pkey
  ELSE NULL

\* protover.c: whether the protocol list has this version of LinkAuth
PRT_LINKAUTH == "LinkAuth"
protocol_list_supports_protocol(protos, proto, version) ==
  version \in protos[proto]

\* node_supports_ed25519_link_authentication falling back on the rs when
\* the ri does not advertise the handshake
Mut_node_supports_ed25519_link_authentication(node) ==
  IF node_get_ed25519_id(node) = NULL THEN FALSE
  ELSE IF /\ node.ri # NULL
          /\ node.ri.protocol_list # NULL
          /\ protocol_list_supports_protocol(node.ri.protocol_list,
                                             PRT_LINKAUTH, 3)
    THEN TRUE
  ELSE IF node.rs # NULL THEN node.rs.supports_ed25519_link_handshake
  ELSE FALSE

node_supports_ed25519_link_authentication(node) ==
  IF node_get_ed25519_id(node) = NULL THEN FALSE
  ELSE IF node.ri # NULL
    THEN IF node.ri.protocol_list = NULL THEN FALSE
         ELSE protocol_list_supports_protocol(node.ri.protocol_list,
                                              PRT_LINKAUTH, 3)
  ELSE IF node.rs # NULL THEN node.rs.supports_ed25519_link_handshake
  ELSE FALSE

tor_addr_port_is_valid_ap(ap) == tor_addr_port_is_valid(ap.addr, ap.port)

node_has_ipv6_orport(node) ==
  tor_addr_port_is_valid_ap(node_get_pref_ipv6_orport(node))

\* node_ipv6_or_preferred not asking whether the node has an IPv6 ORPort
Mut_node_ipv6_or_preferred(opt, node) ==
  IF ~fascist_firewall_use_ipv6(opt) THEN FALSE
  ELSE IF node.ipv6_preferred \/ node_get_prim_orport(node).ret # 0
    THEN TRUE
  ELSE FALSE

node_ipv6_or_preferred(opt, node) ==
  IF ~fascist_firewall_use_ipv6(opt) THEN FALSE
  ELSE IF node.ipv6_preferred \/ node_get_prim_orport(node).ret # 0
    THEN node_has_ipv6_orport(node)
  ELSE FALSE

node_get_pref_orport(opt, node) ==
  IF node_ipv6_or_preferred(opt, node)
    THEN node_get_pref_ipv6_orport(node)
    ELSE node_get_prim_orport(node).ap

\* util.c: tor_strlower, on the names of the model
tor_strlower(s) ==
  CASE s = "ALICE" -> "alice"
    [] s = "Alice" -> "alice"
    [] s = "BOB" -> "bob"
    [] s = "Unnamed" -> "unnamed"
    [] OTHER -> s

\* strcasecmp(a, b), zero when the strings are equal but for their case
strcasecmp(a, b) == IF tor_strlower(a) = tor_strlower(b) THEN 0 ELSE 1

\* util_format.c: base16_decode of HexDigestLen hex digits, -1 when there
\* are too few or one of them is no hex digit
HexDigits == <<"0", "1", "2", "3", "4", "5", "6", "7", "8", "9",
               "A", "B", "C", "D", "E", "F">>
hex_decode_digit(ch) ==
  IF \E i \in 1..16 : HexDigits[i] = ch
    THEN (CHOOSE i \in 1..16 : HexDigits[i] = ch) - 1
    ELSE -1
RECURSIVE base16_decode(_, _)
base16_decode(src, len) ==
  IF len = 0 THEN 0
  ELSE IF Len(src) < len THEN -1
  ELSE IF hex_decode_digit(src[len]) < 0 THEN -1
  ELSE IF base16_decode(src, len - 1) < 0 THEN -1
  ELSE 16 * base16_decode(src, len - 1) + hex_decode_digit(src[len])

\* routerparse.c: hex_digest_nickname_decode.  A token is the sequence of
\* its characters, a nickname in it standing as one element; the result is
\* the value returned, the digest, nn_char ("" for '\0') and the nickname.
DecodeFailed == [digest |-> 0, ret |-> -1, nn_char |-> "", nn_buf |-> ""]
hex_digest_nickname_decode(hexdigest) ==
  LET hex == IF hexdigest # <<>> /\ hexdigest[1] = "$"
               THEN Tail(hexdigest) ELSE hexdigest
      len == Len(hex)
      suffixed == len > HexDigestLen
      digest == base16_decode(hex, HexDigestLen)
  IN  IF suffixed /\ ~(/\ hex[HexDigestLen + 1] \in {"=", "~"}
                       /\ len = HexDigestLen + 2)
        THEN DecodeFailed
      ELSE IF digest < 0 THEN DecodeFailed
      ELSE [digest |-> digest, ret |-> 0,
            nn_char |-> IF suffixed THEN hex[HexDigestLen + 1] ELSE "",
            nn_buf |-> IF suffixed THEN hex[HexDigestLen + 2] ELSE ""]

\* networkstatus.c: the identity that the consensus binds the nickname to,
\* that of the routerstatus with the Named flag and this nickname (the
\* record of the digest, or NULL)
networkstatus_get_router_digest_by_nickname(consensus, nickname) ==
  LET named == IF consensus = NULL THEN {}
               ELSE {rs \in Range(consensus.routerstatus_list) :
                       /\ rs.is_named
                       /\ strcasecmp(rs.nickname, nickname) = 0}
  IN  IF named = {} THEN NULL
      ELSE [digest |-> (CHOOSE rs \in named : TRUE).identity_digest]

\* node_get_by_hex_id taking $hex=name as it takes $hex~name
Mut_node_get_by_hex_id(S, consensus, hex_id) ==
  LET d == hex_digest_nickname_decode(hex_id)
      node == node_get_mutable_by_id(S, d.digest)
      real_name == node_get_nickname(S.heap[node])
  IN  IF d.ret # 0 THEN 0
      ELSE IF node = 0 THEN 0
      ELSE IF d.nn_char # ""
              /\ (real_name = NULL \/ strcasecmp(real_name.str, d.nn_buf) # 0)
        THEN 0
      ELSE node

\* the node (0 for NULL)
node_get_by_hex_id(S, consensus, hex_id) ==
  LET d == hex_digest_nickname_decode(hex_id)
      node == node_get_mutable_by_id(S, d.digest)
      real_name == node_get_nickname(S.heap[node])
      named_id == networkstatus_get_router_digest_by_nickname(consensus,
                                                              d.nn_buf)
  IN  IF d.ret # 0 THEN 0
      ELSE IF node = 0 THEN 0
      ELSE IF d.nn_char # ""
              /\ (real_name = NULL \/ strcasecmp(real_name.str, d.nn_buf) # 0)
        THEN 0
      ELSE IF d.nn_char = "="
              /\ (named_id = NULL \/ named_id.digest # d.digest)
        THEN 0
      ELSE node

\* util_format.c: base16_encode of a digest, len upper-case hex digits
RECURSIVE base16_encode(_, _)
base16_encode(v, len) ==
  IF len = 0 THEN <<>>
  ELSE Append(base16_encode(v \div 16, len - 1), HexDigits[(v % 16) + 1])

\* whether the consensus binds the nickname of the node to its identity
node_is_named(consensus, node) ==
  LET nickname == node_get_nickname(node)
      named_id ==
        IF nickname = NULL THEN NULL
        ELSE networkstatus_get_router_digest_by_nickname(consensus,
                                                         nickname.str)
  IN  IF nickname = NULL THEN FALSE
      ELSE IF named_id = NULL THEN FALSE
      ELSE named_id.digest = node.identity

\* node_get_verbose_nickname that writes '=' whether or not the nickname is
\* Named
Mut_node_get_verbose_nickname(consensus, node) ==
  LET nickname == node_get_nickname(node)
  IN  <<"$">> \o base16_encode(node.identity, HexDigestLen)
      \o (IF nickname = NULL THEN <<>> ELSE <<"=", nickname.str>>)

\* the token written to verbose_name_out
node_get_verbose_nickname(consensus, node) ==
  LET nickname == node_get_nickname(node)
      is_named == node_is_named(consensus, node)
  IN  <<"$">> \o base16_encode(node.identity, HexDigestLen)
      \o (IF nickname = NULL THEN <<>>
          ELSE <<IF is_named THEN "=" ELSE "~", nickname.str>>)

UNNAMED_ROUTER_NICKNAME == "Unnamed"

\* the string of a token as strcasecmp with a nickname sees it: a token of
\* one element is that name, a token with a hex digest is longer than a
\* nickname can be and equals none
c_str(token) == IF Len(token) = 1 THEN token[1] ELSE "$"

\* networkstatus.c: whether the consensus lists a routerstatus of this
\* nickname with the Unnamed flag
networkstatus_nickname_is_unnamed(consensus, nickname) ==
  IF consensus = NULL THEN FALSE
  ELSE \E rs \in Range(consensus.routerstatus_list) :
         /\ rs.is_unnamed
         /\ strcasecmp(rs.nickname, nickname) = 0

\* the nodes of the sequence whose nickname is the name, in sequence order
nickname_matches(S, name) ==
  SelectSeq(S.nl.nodes,
            LAMBDA o : LET n == node_get_nickname(S.heap[o])
                       IN  IF n = NULL THEN FALSE
                           ELSE strcasecmp(n.str, name) = 0)

\* node->name_lookup_warned = 1 for the nodes of the set
set_name_lookup_warned(S, nodes) ==
  [S EXCEPT !.heap = [o \in Objs |->
                        IF o \in nodes
                          THEN [S.heap[o] EXCEPT !.name_lookup_warned = TRUE]
                          ELSE S.heap[o]]]

\* what a lookup by nickname answers: the nodelist after it, the node found
\* (0 for NULL) and the warnings it logged
Lookup(S, node, log) == [S |-> S, node |-> node, log |-> log]

\* node_get_by_nickname that scans the nodes before it asks the consensus
Mut_node_get_by_nickname(S, consensus, nickname, warn_if_unnamed) ==
  LET name == c_str(nickname)
      matches == nickname_matches(S, name)
  IN  IF S.nl = NULL THEN Lookup(S, 0, <<>>)
      ELSE IF node_get_by_hex_id(S, consensus, nickname) # 0
        THEN Lookup(S, node_get_by_hex_id(S, consensus, nickname), <<>>)
      ELSE IF strcasecmp(name, UNNAMED_ROUTER_NICKNAME) = 0
        THEN Lookup(S, 0, <<>>)
      ELSE IF Len(matches) > 0 THEN Lookup(S, matches[1], <<>>)
      ELSE Lookup(S, 0, <<>>)

node_get_by_nickname(S, consensus, nickname, warn_if_unnamed) ==
  LET by_hex == node_get_by_hex_id(S, consensus, nickname)
      name == c_str(nickname)
      named_id == networkstatus_get_router_digest_by_nickname(consensus, name)
      matches == nickname_matches(S, name)
      unwarned == {o \in Range(matches) : ~S.heap[o].name_lookup_warned}
      choice == IF Len(matches) > 0 THEN matches[1] ELSE 0
  IN  IF S.nl = NULL THEN Lookup(S, 0, <<>>)
      ELSE IF by_hex # 0 THEN Lookup(S, by_hex, <<>>)
      ELSE IF strcasecmp(name, UNNAMED_ROUTER_NICKNAME) = 0
        THEN Lookup(S, 0, <<>>)
      ELSE IF named_id # NULL
        THEN Lookup(S, node_get_mutable_by_id(S, named_id.digest), <<>>)
      ELSE IF networkstatus_nickname_is_unnamed(consensus, name)
        THEN Lookup(S, 0, <<>>)
      ELSE IF Len(matches) > 1 /\ warn_if_unnamed
        THEN Lookup(set_name_lookup_warned(S, unwarned), choice,
                    IF unwarned # {} THEN <<"multiple matches">> ELSE <<>>)
      ELSE IF Len(matches) = 1 /\ warn_if_unnamed
        THEN Lookup(set_name_lookup_warned(S, unwarned), choice,
                    IF unwarned # {} THEN <<"no key registered">> ELSE <<>>)
      ELSE Lookup(S, choice, <<>>)

\* a call of an accessor leaves the call and its result in accessed
Accessed(fn, node, result) == [fn |-> fn, node |-> node, result |-> result]

NodeGetNickname(node) ==
  /\ accessed' = Accessed("node_get_nickname", node, node_get_nickname(node))
  /\ UNCHANGED <<the_nodelist, heap, held_by_nodes, md_cache, cur_ns, md_ns,
                 options, dirinfo>>

NodeIsDir(node) ==
  /\ accessed' = Accessed("node_is_dir", node, node_is_dir(node))
  /\ UNCHANGED <<the_nodelist, heap, held_by_nodes, md_cache, cur_ns, md_ns,
                 options, dirinfo>>

\* a lookup leaves the token and the node found in accessed
NodeGetByHexId(hex_id) ==
  /\ accessed' = [fn |-> "node_get_by_hex_id", hex_id |-> hex_id,
                  result |-> node_get_by_hex_id(Current, cur_ns, hex_id)]
  /\ UNCHANGED <<the_nodelist, heap, held_by_nodes, md_cache, cur_ns, md_ns,
                 options, dirinfo>>

NodeSupportsEd25519LinkAuthentication(node) ==
  /\ accessed' =
       Accessed("node_supports_ed25519_link_authentication", node,
                node_supports_ed25519_link_authentication(node))
  /\ UNCHANGED <<the_nodelist, heap, held_by_nodes, md_cache, cur_ns, md_ns,
                 options, dirinfo>>

NodeGetPrimOrport(node) ==
  /\ accessed' =
       Accessed("node_get_prim_orport", node,
                node_get_prim_orport(node))
  /\ UNCHANGED <<the_nodelist, heap, held_by_nodes, md_cache, cur_ns, md_ns,
                 options, dirinfo>>

NodeGetPrefIpv6Orport(node) ==
  /\ accessed' =
       Accessed("node_get_pref_ipv6_orport", node,
                node_get_pref_ipv6_orport(node))
  /\ UNCHANGED <<the_nodelist, heap, held_by_nodes, md_cache, cur_ns, md_ns,
                 options, dirinfo>>

NodeGetPrefOrport(node) ==
  /\ accessed' =
       Accessed("node_get_pref_orport", node,
                node_get_pref_orport(options, node))
  /\ UNCHANGED <<the_nodelist, heap, held_by_nodes, md_cache, cur_ns, md_ns,
                 options, dirinfo>>

\* node_get_addr: the address of the primary ORPort
node_get_addr(node) == node_get_prim_orport(node).ap

\* tor_addr_compare_masked(a1, a2, 16, CMP_SEMANTIC) is zero: the addresses
\* are of one family and agree in their top 16 bits
addrs_in_same_network_family(a1, a2) ==
  /\ a1.family = a2.family
  /\ a1.addr \div (2 ^ 16) = a2.addr \div (2 ^ 16)

\* routerlist.c: whether the token names the router by its identity; a
\* $hex=name wants the nickname and the Named flag too, a $hex~name the
\* nickname
hex_digest_nickname_matches(hexdigest, identity_digest, nickname, is_named) ==
  LET d == hex_digest_nickname_decode(hexdigest)
  IN  IF d.ret = -1 THEN FALSE
      ELSE IF /\ d.nn_char \in {"=", "~"}
              /\ \/ nickname = NULL
                 \/ strcasecmp(d.nn_buf, nickname.str) # 0
                 \/ (d.nn_char = "=" /\ ~is_named)
        THEN FALSE
      ELSE d.digest = identity_digest

node_nickname_matches(consensus, node, nickname) ==
  LET n == node_get_nickname(node)
  IN  IF /\ n # NULL
         /\ nickname[1] # "$"
         /\ strcasecmp(n.str, c_str(nickname)) = 0
        THEN TRUE
        ELSE hex_digest_nickname_matches(nickname, node.identity, n,
                                         node_is_named(consensus, node))

\* lst is NULL or the record of a list of tokens
node_in_nickname_smartlist(consensus, lst, node) ==
  IF lst = NULL THEN FALSE
  ELSE \E i \in 1..Len(lst.list) :
         node_nickname_matches(consensus, node, lst.list[i])

node_get_declared_family(node) ==
  IF node.ri # NULL /\ node.ri.declared_family # NULL
    THEN node.ri.declared_family
  ELSE IF node.md # NULL /\ node.md.family # NULL
    THEN node.md.family
  ELSE NULL

\* routerset.c: a routerset that names identities contains the node of one
\* of them
routerset_contains_node(set, node) ==
  /\ node.rs # NULL \/ node.ri # NULL
  /\ node.identity \in set.identities

\* routerset.c: the nodes of the nodelist that the routerset contains, in
\* sequence order
routerset_get_all_nodes(S, set) ==
  SelectSeq(S.nl.nodes, LAMBDA o : routerset_contains_node(set, S.heap[o]))

\* nodes_in_same_family that asks one node only whether it declares the
\* other
Mut_nodes_in_same_family(consensus, opt, node1, node2) ==
  LET f1 == node_get_declared_family(node1)
      f2 == node_get_declared_family(node2)
  IN  IF /\ opt.EnforceDistinctSubnets
         /\ addrs_in_same_network_family(node_get_addr(node1),
                                         node_get_addr(node2))
        THEN TRUE
      ELSE IF /\ f1 # NULL /\ f2 # NULL
              /\ node_in_nickname_smartlist(consensus, f1, node2)
        THEN TRUE
      ELSE IF opt.NodeFamilySets # NULL
        THEN \E i \in 1..Len(opt.NodeFamilySets.list) :
               /\ routerset_contains_node(opt.NodeFamilySets.list[i], node1)
               /\ routerset_contains_node(opt.NodeFamilySets.list[i], node2)
      ELSE FALSE

nodes_in_same_family(consensus, opt, node1, node2) ==
  LET f1 == node_get_declared_family(node1)
      f2 == node_get_declared_family(node2)
  IN  IF /\ opt.EnforceDistinctSubnets
         /\ addrs_in_same_network_family(node_get_addr(node1),
                                         node_get_addr(node2))
        THEN TRUE
      ELSE IF /\ f1 # NULL /\ f2 # NULL
              /\ node_in_nickname_smartlist(consensus, f1, node2)
              /\ node_in_nickname_smartlist(consensus, f2, node1)
        THEN TRUE
      ELSE IF opt.NodeFamilySets # NULL
        THEN \E i \in 1..Len(opt.NodeFamilySets.list) :
               /\ routerset_contains_node(opt.NodeFamilySets.list[i], node1)
               /\ routerset_contains_node(opt.NodeFamilySets.list[i], node2)
      ELSE FALSE

\* the loop over the declared family of node, from its i-th token on: what
\* it adds to sl
RECURSIVE add_declared_family(_, _, _, _, _)
add_declared_family(S, consensus, node, declared_family, i) ==
  IF i > Len(declared_family.list) THEN <<>>
  ELSE LET name == declared_family.list[i]
           node2 == node_get_by_nickname(S, consensus, name, FALSE).node
           family2 == IF node2 = 0 THEN NULL
                      ELSE node_get_declared_family(S.heap[node2])
           rest == add_declared_family(S, consensus, node, declared_family,
                                       i + 1)
       IN  IF node2 = 0 THEN rest
           ELSE IF family2 = NULL THEN rest
           ELSE IF \E j \in 1..Len(family2.list) :
                     node_nickname_matches(consensus, node, family2.list[j])
             THEN <<node2>> \o rest
           ELSE rest

\* the loop over NodeFamilySets, from the i-th routerset on
RECURSIVE add_family_sets(_, _, _, _)
add_family_sets(S, sets, node, i) ==
  IF i > Len(sets.list) THEN <<>>
  ELSE (IF routerset_contains_node(sets.list[i], node)
          THEN routerset_get_all_nodes(S, sets.list[i])
          ELSE <<>>)
       \o add_family_sets(S, sets, node, i + 1)

\* what nodelist_add_node_and_family(sl, node) adds to sl, for a nodelist
\* that nodelist_get_list need not create
nodelist_add_node_and_family(S, consensus, opt, node) ==
  LET all_nodes == S.nl.nodes
      declared_family == node_get_declared_family(node)
      real_node == node_get_mutable_by_id(S, node.identity)
  IN  (IF real_node # 0 THEN <<real_node>> ELSE <<>>)
      \o (IF opt.EnforceDistinctSubnets
            THEN SelectSeq(all_nodes,
                           LAMBDA node2 :
                             addrs_in_same_network_family(
                               node_get_addr(S.heap[node2]),
                               node_get_addr(node)))
            ELSE <<>>)
      \o (IF declared_family # NULL
            THEN add_declared_family(S, consensus, node, declared_family, 1)
            ELSE <<>>)
      \o (IF opt.NodeFamilySets # NULL
            THEN add_family_sets(S, opt.NodeFamilySets, node, 1)
            ELSE <<>>)

\* node_get_verbose_nickname(node, verbose_name_out) of a node of the
\* nodelist
NodeGetVerboseNickname(o) ==
  /\ the_nodelist # NULL
  /\ o \in the_nodelist.nodes_by_id
  /\ accessed' = Accessed("node_get_verbose_nickname", o,
                          node_get_verbose_nickname(cur_ns, heap[o]))
  /\ UNCHANGED <<the_nodelist, heap, held_by_nodes, md_cache, cur_ns, md_ns,
                 options, dirinfo>>

\* nodes_in_same_family(node1, node2) of two nodes of the nodelist
NodesInSameFamily(o1, o2) ==
  /\ the_nodelist # NULL
  /\ {o1, o2} \subseteq the_nodelist.nodes_by_id
  /\ accessed' = [fn |-> "nodes_in_same_family", node1 |-> o1, node2 |-> o2,
                  result |-> nodes_in_same_family(cur_ns, options, heap[o1],
                                                  heap[o2])]
  /\ UNCHANGED <<the_nodelist, heap, held_by_nodes, md_cache, cur_ns, md_ns,
                 options, dirinfo>>

\* nodelist_add_node_and_family(sl, node) of a node of the nodelist and an
\* empty sl
NodelistAddNodeAndFamily(o) ==
  /\ the_nodelist # NULL
  /\ o \in the_nodelist.nodes_by_id
  /\ accessed' = Accessed("nodelist_add_node_and_family", o,
                          nodelist_add_node_and_family(Current, cur_ns,
                                                       options, heap[o]))
  /\ UNCHANGED <<the_nodelist, heap, held_by_nodes, md_cache, cur_ns, md_ns,
                 options, dirinfo>>

\* node_get_by_nickname(nickname, warn_if_unnamed): it may set
\* name_lookup_warned, and leaves the node found and the warnings logged in
\* accessed
NodeGetByNickname(nickname, warn_if_unnamed) ==
  /\ \E r \in {node_get_by_nickname(Current, cur_ns, nickname,
                                    warn_if_unnamed)} :
       /\ Commit(r.S)
       /\ accessed' = [fn |-> "node_get_by_nickname", nickname |-> nickname,
                       warn_if_unnamed |-> warn_if_unnamed,
                       result |-> r.node, log |-> r.log]
  /\ UNCHANGED <<md_cache, cur_ns, md_ns, options, dirinfo>>

(***************************************************************************)
(* Spec: the structure of the nodelist.  A client (no authority), every    *)
(* router at one address, one set of consensus flags.                      *)
(***************************************************************************)
\* EntryNodes and ExitNodes are routersets (NULL when not set),
\* PathsNeededToBuildCircuits is in percent (-1 when not set),
\* NodeFamilySets the record of the list of the routersets (NULL when there
\* is none)
ClientOptions == [AuthoritativeDir |-> FALSE, V3AuthoritativeDir |-> FALSE,
                  ClientUseIPv6 |-> FALSE, ClientPreferIPv6ORPort |-> FALSE,
                  EntryNodes |-> NULL, ExitNodes |-> NULL,
                  PathsNeededToBuildCircuits |-> -1,
                  EnforceDistinctSubnets |-> TRUE, NodeFamilySets |-> NULL]

InitWith(opts) ==
  /\ the_nodelist = NULL
  /\ heap = [o \in Objs |-> NULL]
  /\ held_by_nodes = [m \in AllMicrodescs |-> 0]
  /\ md_cache = {}
  /\ cur_ns = NULL
  /\ md_ns = NULL
  /\ options \in opts
  /\ have_min_dir_info = FALSE
  /\ have_consensus_path = CONSENSUS_PATH_UNKNOWN
  /\ need_to_update_have_min_dir_info = TRUE
  /\ dir_info_status = ""
  /\ logged_delay = FALSE
  /\ control_events = <<>>
  /\ last_client_status = ""
  /\ n_updates = 0
  /\ accessed = NULL

CoreRouterInfos ==
  {RouterInfo(id, 1, 0, ROUTER_PURPOSE_GENERAL) : id \in Ids}
CoreMicrodescs == {Microdesc(d, 0) : d \in Digests}
CoreListings ==
  Listings(RsTemplates(Digests, {1}, {0}, {{"is_valid", "is_flagged_running"}}))

Init == InitWith({ClientOptions})

Next ==
  \/ \E ri \in CoreRouterInfos : SetRouterinfo(ri, {})
  \/ \E ri \in CoreRouterInfos : RemoveRouterinfo(ri)
  \/ \E md \in CoreMicrodescs : AddMicrodesc(md)
  \/ \E id \in Ids, md \in CoreMicrodescs : RemoveMicrodesc(id, md)
  \/ \E f \in {FLAV_NS, FLAV_MICRODESC}, l \in CoreListings : SetConsensus(f, l)
  \/ Purge
  \/ FreeAll

Spec == Init /\ [][Next]_vars

(***************************************************************************)
(* SpecAddr: routers that change address.  A directory authority, which    *)
(* records when it reached a router; routerinfos and routerstatuses at     *)
(* every address, consensuses of the ns flavor.                            *)
(***************************************************************************)
AuthOptions == [ClientOptions EXCEPT !.AuthoritativeDir = TRUE,
                                     !.V3AuthoritativeDir = TRUE]

AddrRouterInfos ==
  {RouterInfo(id, a, a6, ROUTER_PURPOSE_GENERAL) :
     id \in Ids, a \in Addrs, a6 \in 0..1}
AddrListings ==
  Listings(RsTemplates({1}, Addrs, {0}, {{"is_valid", "is_flagged_running"}}))

InitAddr == InitWith({AuthOptions})

NextAddr ==
  \/ \E ri \in AddrRouterInfos : SetRouterinfo(ri, {})
  \/ \E ri \in AddrRouterInfos : RemoveRouterinfo(ri)
  \/ \E l \in AddrListings : SetConsensus(FLAV_NS, l)
  \/ \E id \in Ids, now \in 1..MaxTime, is_ipv6 \in BOOLEAN :
       MarkReachable(id, now, is_ipv6)

SpecAddr == InitAddr /\ [][NextAddr]_vars

(***************************************************************************)
(* SpecFlags: the flags of the consensus.  A client with or without the    *)
(* preference for IPv6 ORPorts, or a v3 authority; routerstatuses and      *)
(* microdescs with and without an IPv6 address; four sets of consensus     *)
(* flags, which tell any two flags apart.                                  *)
(***************************************************************************)
FlagSets ==
  {{"is_valid", "is_flagged_running", "is_fast"},
   {"is_valid", "is_flagged_running", "is_stable", "is_hs_dir"},
   {"is_valid", "is_possible_guard", "is_bad_exit", "is_hs_dir"},
   {"is_flagged_running", "is_exit", "is_bad_exit"}}

FlagOptions ==
  {ClientOptions, [ClientOptions EXCEPT !.ClientPreferIPv6ORPort = TRUE],
   AuthOptions}
FlagMicrodescs == {Microdesc(1, a6) : a6 \in 0..1}
\* identity 1 is listed in every way, the others in one way
FlagListings ==
  {l \in Listings(RsTemplates({1}, {1}, 0..1, FlagSets)) :
     \A id \in Ids \ {1} :
       l[id] # NULL =>
         l[id].ipv6_addr = 0 /\ l[id].flags = {"is_flagged_running",
                                               "is_exit", "is_bad_exit"}}

InitFlags == InitWith(FlagOptions)

NextFlags ==
  \/ \E ri \in CoreRouterInfos, authstatus \in AuthStatuses :
       SetRouterinfo(ri, authstatus)
  \/ \E md \in FlagMicrodescs : AddMicrodesc(md)
  \/ \E id \in Ids, md \in FlagMicrodescs : RemoveMicrodesc(id, md)
  \/ \E l \in FlagListings : SetConsensus(FLAV_MICRODESC, l)

SpecFlags == InitFlags /\ [][NextFlags]_vars

(***************************************************************************)
(* SpecStatus: routers that the consensus stops listing.  A client, with   *)
(* or without the preference for IPv6 ORPorts; routerinfos of the general  *)
(* and of the bridge purpose; consensuses of the ns flavor that give a     *)
(* router every flag and an IPv6 address, or none; router_set_status and   *)
(* the exit policy cache.                                                  *)
(***************************************************************************)
StatusOptions ==
  {ClientOptions, [ClientOptions EXCEPT !.ClientPreferIPv6ORPort = TRUE]}
StatusRouterInfos ==
  {RouterInfo(id, 1, 0, p) :
     id \in Ids, p \in {ROUTER_PURPOSE_GENERAL, ROUTER_PURPOSE_BRIDGE}}
StatusListings ==
  Listings(RsTemplates({1}, {1}, {1}, {FlagNames})
             \cup RsTemplates({1}, {1}, {0}, {{}}))

InitStatus == InitWith(StatusOptions)

NextStatus ==
  \/ \E ri \in StatusRouterInfos : SetRouterinfo(ri, {})
  \/ \E l \in StatusListings : SetConsensus(FLAV_NS, l)
  \/ \E id \in Ids, up \in BOOLEAN : RouterSetStatus(id, up)
  \/ \E id \in Ids : CacheRejectsAll(id)

SpecStatus == InitStatus /\ [][NextStatus]_vars

(***************************************************************************)
(* SpecDirInfo: the readiness estimator of a client, with and without      *)
(* ExitNodes.  Consensuses of the microdesc flavor list identity i with    *)
(* descriptor digest i: identity 1 not running, or running as a guard, as  *)
(* an exit or as both, the others running as both; the microdescs arrive   *)
(* one by one.  A call that is delayed reads the message only, the         *)
(* progress count reads neither the delay nor the guards.                  *)
(***************************************************************************)
DirInfoOptions ==
  {ClientOptions, [ClientOptions EXCEPT !.ExitNodes = Routerset({1})]}
DirInfoFlagSets ==
  {{}, {"is_flagged_running", "is_possible_guard"},
   {"is_flagged_running", "is_exit"},
   {"is_flagged_running", "is_possible_guard", "is_exit"}}
DirInfoListings ==
  {l \in Listings(RsTemplates(Digests, {1}, {0}, DirInfoFlagSets)) :
     \A id \in Ids :
       l[id] # NULL =>
         /\ l[id].descriptor_digest = id
         /\ id # 1 => l[id].flags = {"is_flagged_running",
                                     "is_possible_guard", "is_exit"}}
DelayMessages == {"DisableNetwork is set.", "No running bridges"}
ConsensusParams == {{}, {10}}
DelayedEnvs ==
  [delay : {TRUE}, msg : DelayMessages, live : {TRUE}, guards_ok : {TRUE},
   param : {{}}, routerlist : {{}}]
UndelayedEnvs ==
  [delay : {FALSE}, msg : {""}, live : BOOLEAN, guards_ok : BOOLEAN,
   param : ConsensusParams, routerlist : {{}}]
DirInfoEnvs == DelayedEnvs \cup UndelayedEnvs
ProgressEnvs ==
  [delay : {FALSE}, msg : {""}, live : BOOLEAN, guards_ok : {TRUE},
   param : ConsensusParams, routerlist : {{}}]

InitDirInfo == InitWith(DirInfoOptions)

NextDirInfo ==
  \/ \E l \in DirInfoListings : SetConsensus(FLAV_MICRODESC, l)
  \/ \E md \in CoreMicrodescs : AddMicrodesc(md)
  \/ \E up \in BOOLEAN : RouterSetStatus(1, up)
  \/ RouterDirInfoChanged
  \/ \E env \in DirInfoEnvs : RouterHaveMinimumDirInfo(env)
  \/ \E env \in ProgressEnvs : CountLoadingDescriptorsProgress(env)

SpecDirInfo == InitDirInfo /\ [][NextDirInfo]_vars

(***************************************************************************)
(* SpecPaths: the path fractions, from the start to the first              *)
(* recomputation.  A client with ExitNodes, EntryNodes or                  *)
(* PathsNeededToBuildCircuits set; consensuses of the microdesc flavor     *)
(* that list identity i with descriptor digest i, running, as a guard, as  *)
(* an exit or as both; the microdescs arrive one by one, and the router    *)
(* with identity 1 may publish a descriptor whose exit policy is           *)
(* reject *:*.  Every call finds the consensus live and the guards ready;  *)
(* the first call recomputes, the later ones answer what it found.         *)
(***************************************************************************)
PathOptions ==
  {[ClientOptions EXCEPT !.ExitNodes = Routerset({1})],
   [ClientOptions EXCEPT !.EntryNodes = Routerset({1})],
   [ClientOptions EXCEPT !.PathsNeededToBuildCircuits = 50]}
PathFlagSets ==
  {{"is_flagged_running", "is_possible_guard"},
   {"is_flagged_running", "is_exit"},
   {"is_flagged_running", "is_possible_guard", "is_exit"}}
\* identity 1 is listed in every way, the others as guards or as both
PathListings ==
  {l \in Listings(RsTemplates(Digests, {1}, {0}, PathFlagSets)) :
     \A id \in Ids :
       l[id] # NULL =>
         /\ l[id].descriptor_digest = id
         /\ id # 1 => "is_possible_guard" \in l[id].flags}
RejectStarRouterInfo ==
  [RouterInfo(1, 1, 0, ROUTER_PURPOSE_GENERAL)
     EXCEPT !.policy_is_reject_star = TRUE]
PathEnvs ==
  [delay : {FALSE}, msg : {""}, live : {TRUE}, guards_ok : {TRUE},
   param : {{}, {10}, {99}}, routerlist : {{}}]

InitPaths == InitWith(PathOptions)

NextPaths ==
  \/ \E l \in PathListings : SetConsensus(FLAV_MICRODESC, l)
  \/ \E md \in CoreMicrodescs : AddMicrodesc(md)
  \/ SetRouterinfo(RejectStarRouterInfo, {})
  \/ \E env \in PathEnvs : RouterHaveMinimumDirInfo(env)

SpecPaths == InitPaths /\ [][NextPaths]_vars

(***************************************************************************)
(* SpecAccess: the accessors, each called on the nodes that differ in what *)
(* it reads.  The descriptors of a node are those of identity 1; the ri,   *)
(* the rs and the md of a node may all disagree.                           *)
(***************************************************************************)
NodeOf(ri, rs, md) == [NewNode(1, 0) EXCEPT !.ri = ri, !.rs = rs, !.md = md]

AccessRi == RouterInfo(1, 1, 0, ROUTER_PURPOSE_GENERAL)
AccessRs == RouterStatus(1, 1, 1, 1, 0, {"is_valid", "is_flagged_running"})
AccessMd == Microdesc(1, 0)

Nicknames == {"alice", "bob"}
NicknameNodes ==
  {NodeOf(ri, rs, NULL) :
     ri \in {NULL} \cup {[AccessRi EXCEPT !.nickname = n] : n \in Nicknames},
     rs \in {NULL} \cup {[AccessRs EXCEPT !.nickname = n] : n \in Nicknames}}

DirNodes ==
  {NodeOf(ri, rs, NULL) :
     ri \in {NULL} \cup {[AccessRi EXCEPT !.supports_tunnelled_dir_requests = d]
                           : d \in BOOLEAN},
     rs \in {NULL} \cup {[AccessRs EXCEPT !.is_v2_dir = d] : d \in BOOLEAN}}

\* the ri is at address 1 and port 9001, the rs at 2 and 443, the md at 3
\* and 8080, each with either of them possibly zero
OrportRis ==
  {NULL} \cup {[AccessRi EXCEPT !.addr = a, !.or_port = p]
                 : a \in {0, 1}, p \in {0, 9001}}
OrportRss ==
  {NULL} \cup {[AccessRs EXCEPT !.addr = a, !.or_port = p]
                 : a \in {0, 2}, p \in {0, 443}}
Ipv6OrportRis ==
  {NULL} \cup {[AccessRi EXCEPT !.ipv6_addr = a, !.ipv6_orport = p]
                 : a \in {0, 1}, p \in {0, 9001}}
Ipv6OrportRss ==
  {NULL} \cup {[AccessRs EXCEPT !.ipv6_addr = a, !.ipv6_orport = p]
                 : a \in {0, 2}, p \in {0, 443}}
Ipv6OrportMds ==
  {NULL} \cup {[AccessMd EXCEPT !.ipv6_addr = a, !.ipv6_orport = p]
                 : a \in {0, 3}, p \in {0, 8080}}
\* node_assert_ok(node): the node has an ri or an rs
node_assert_ok(node) == node.ri # NULL \/ node.rs # NULL
PrimOrportNodes ==
  {node \in {NodeOf(ri, rs, NULL) : ri \in OrportRis, rs \in OrportRss} :
     node_assert_ok(node)}
Ipv6OrportNodes ==
  {node \in {NodeOf(ri, rs, md) : ri \in Ipv6OrportRis,
                                  rs \in Ipv6OrportRss,
                                  md \in Ipv6OrportMds} :
     node_assert_ok(node)}

\* nodes with and without an IPv4 address and an IPv6 address in the ri,
\* the rs and the md, that prefer IPv6 or not
PrefOrportNodes ==
  {node \in {[NodeOf(ri, rs, md) EXCEPT !.ipv6_preferred = b] :
               b \in BOOLEAN,
               ri \in {NULL} \cup {RouterInfo(1, a, a6, ROUTER_PURPOSE_GENERAL)
                                     : a \in {0, 1}, a6 \in {0, 1}},
               rs \in {NULL} \cup {RouterStatus(1, 1, 1, a, a6, {"is_valid"})
                                     : a \in {0, 2}, a6 \in {0, 2}},
               md \in {NULL, Microdesc(1, 3)}} :
     node_assert_ok(node)}

\* a signing key certificate with the key 7 or with a key of zeros, a
\* protocol list with LinkAuth 1 or with LinkAuth 1 and 3, an md with the
\* Ed25519 key 7
LinkRis ==
  {NULL} \cup
  {[AccessRi EXCEPT !.signing_key_cert = cert, !.protocol_list = protos] :
     cert \in {NULL, [signing_key |-> 0], [signing_key |-> 7]},
     protos \in {NULL, [LinkAuth |-> {1}], [LinkAuth |-> {1, 3}]}}
LinkRss ==
  {NULL} \cup
  {[AccessRs EXCEPT !.supports_ed25519_link_handshake = b] : b \in BOOLEAN}
LinkMds ==
  {NULL, AccessMd, [AccessMd EXCEPT !.ed25519_identity_pkey = EdKey(7)]}
LinkNodes ==
  {NodeOf(ri, rs, md) : ri \in LinkRis, rs \in LinkRss, md \in LinkMds}

\* a client that may use IPv6 and one that may not
AccessOptions == {ClientOptions, [ClientOptions EXCEPT !.ClientUseIPv6 = TRUE]}

InitAccess == InitWith(AccessOptions)

NextAccess ==
  \/ \E node \in NicknameNodes : NodeGetNickname(node)
  \/ \E node \in DirNodes : NodeIsDir(node)
  \/ \E node \in LinkNodes : NodeSupportsEd25519LinkAuthentication(node)
  \/ \E node \in PrimOrportNodes : NodeGetPrimOrport(node)
  \/ \E node \in Ipv6OrportNodes : NodeGetPrefIpv6Orport(node)
  \/ \E node \in PrefOrportNodes : NodeGetPrefOrport(node)

SpecAccess == InitAccess /\ [][NextAccess]_vars

(***************************************************************************)
(* SpecLookup: the lookup of a node by a token.  Consensuses of the ns     *)
(* flavor list the routers with or without the Named flag; router 1 is     *)
(* alice, router 2 is bob.  The tokens have well-formed hex digests of the *)
(* two routers and of no router, digests that are too short or no hex, and *)
(* suffixes of either form, of no form and with no name.                   *)
(***************************************************************************)
LookupFlagSets ==
  {{"is_valid", "is_flagged_running"},
   {"is_valid", "is_flagged_running", "is_named"}}
LookupListings == Listings(RsTemplates({1}, {1}, {0}, LookupFlagSets))
\* the hex digest of an identity, one that is too short and one that is no
\* hex
HexOf(id) ==
  [i \in 1..HexDigestLen |-> IF i = HexDigestLen THEN HexDigits[id + 1] ELSE "0"]
TokenHexes ==
  {HexOf(id) : id \in 1..(MaxId + 1)}
  \cup {Tail(HexOf(1)), [HexOf(1) EXCEPT ![1] = "G"]}
TokenSuffixes ==
  {<<>>, <<"=">>, <<"0">>}
  \cup {<<c, n>> : c \in {"=", "~", "+"}, n \in {"alice", "ALICE", "bob"}}
Tokens ==
  {<<"$">> \o h \o s : h \in TokenHexes, s \in TokenSuffixes}
  \cup TokenHexes

InitLookup == InitWith({ClientOptions})

NextLookup ==
  \/ \E ri \in CoreRouterInfos : SetRouterinfo(ri, {})
  \/ \E l \in LookupListings : SetConsensus(FLAV_NS, l)
  \/ FreeAll
  \/ \E hex_id \in Tokens : NodeGetByHexId(hex_id)

SpecLookup == InitLookup /\ [][NextLookup]_vars

(***************************************************************************)
(* SpecNames: the lookup of a node by its nickname and the verbose         *)
(* nickname.  The routers call themselves bob or Unnamed, two of them may  *)
(* take the same name; a consensus of the ns flavor lists a router as bob  *)
(* with the Named flag, with the Unnamed flag or with neither, and gives   *)
(* the Named flag to one router of a name at most.                         *)
(***************************************************************************)
NameRouterInfos ==
  {[RouterInfo(id, 1, 0, ROUTER_PURPOSE_GENERAL) EXCEPT !.nickname = n] :
     id \in Ids, n \in {"bob", UNNAMED_ROUTER_NICKNAME}}
NameTemplates ==
  {[descriptor_digest |-> 1, addr |-> 1, ipv6_addr |-> 0,
    flags |-> {"is_valid", "is_flagged_running"} \cup f, nickname |-> n] :
     f \in {{}, {"is_named"}, {"is_unnamed"}}, n \in {"bob"}}
NameListings ==
  {l \in Listings(NameTemplates) :
     \A i, j \in Ids :
       (/\ l[i] # NULL /\ l[j] # NULL
        /\ "is_named" \in l[i].flags /\ "is_named" \in l[j].flags) => i = j}
\* the names looked up: the two names, one in either case, and a hex digest
LookupNames ==
  {<<"bob">>, <<"BOB">>, <<UNNAMED_ROUTER_NICKNAME>>,
   <<"$">> \o base16_encode(1, HexDigestLen)}

\* those of them that are bare nicknames
BareNames == {"bob", "BOB", UNNAMED_ROUTER_NICKNAME}

InitNames == InitWith({ClientOptions})

NextNames ==
  \/ \E ri \in NameRouterInfos : SetRouterinfo(ri, {})
  \/ \E l \in NameListings : SetConsensus(FLAV_NS, l)
  \/ \E o \in Objs : NodeGetVerboseNickname(o)
  \/ \E name \in LookupNames, warn \in BOOLEAN : NodeGetByNickname(name, warn)

SpecNames == InitNames /\ [][NextNames]_vars

(***************************************************************************)
(* SpecFamily: the family resolver.  Router 1 is alice, routers 2 and 3    *)
(* are both bob; 1 and 2 are in one /16 network, 3 is in another.  A       *)
(* router declares no family, or the other name, or the identity of        *)
(* another router ($hex=name, $hex, $hex~name).  The consensuses of the ns flavor list router 2, with   *)
(* or without the Named flag.  The options enforce distinct subnets or     *)
(* not, and have one family set of routers 1 and 3 or none.                *)
(***************************************************************************)
FamilyIds == 1..(MaxId + 1)
HexToken(id) == <<"$">> \o base16_encode(id, HexDigestLen)
FamilyNameOf(id) == IF id = 1 THEN "alice" ELSE "bob"
FamilyAddrOf(id) == IF id <= 2 THEN id ELSE (2 ^ 16) + id
DeclaredFamilies(id) ==
  {NULL, [list |-> << <<IF id = 1 THEN "bob" ELSE "alice">> >>],
   [list |-> <<CASE id = 1 -> HexToken(2) \o <<"=", "bob">>
                 [] id = 2 -> HexToken(1)
                 [] OTHER -> HexToken(1) \o <<"~", "ALICE">> >>]}
FamilyRouterInfos ==
  UNION {{[RouterInfo(id, FamilyAddrOf(id), 0, ROUTER_PURPOSE_GENERAL)
             EXCEPT !.nickname = FamilyNameOf(id), !.declared_family = f] :
            f \in DeclaredFamilies(id)} : id \in FamilyIds}
FamilyListings ==
  {[id \in Ids |->
      IF id = 2
        THEN [descriptor_digest |-> 1, addr |-> FamilyAddrOf(2),
              ipv6_addr |-> 0,
              flags |-> {"is_valid", "is_flagged_running"} \cup f]
        ELSE NULL] : f \in {{}, {"is_named"}}}
FamilyOptions ==
  {ClientOptions,
   [ClientOptions EXCEPT !.EnforceDistinctSubnets = FALSE],
   [ClientOptions EXCEPT !.EnforceDistinctSubnets = FALSE,
                         !.NodeFamilySets = [list |-> <<Routerset({1, 3})>>]]}

InitFamily == InitWith(FamilyOptions)

NextFamily ==
  \/ \E ri \in FamilyRouterInfos : SetRouterinfo(ri, {})
  \/ \E l \in FamilyListings : SetConsensus(FLAV_NS, l)
  \/ \E o1, o2 \in Objs : NodesInSameFamily(o1, o2)
  \/ \E o \in Objs : NodelistAddNodeAndFamily(o)

SpecFamily == InitFamily /\ [][NextFamily]_vars

(***************************************************************************)
(* What the properties read.                                               *)
(***************************************************************************)
\* the nodes of the identity index, and of the node sequence
IndexNodes == IF the_nodelist = NULL THEN {} ELSE the_nodelist.nodes_by_id
SeqNodes ==
  IF the_nodelist = NULL THEN {}
  ELSE {the_nodelist.nodes[i] : i \in 1..Len(the_nodelist.nodes)}

\* node_get_by_id in the state before and the state after a step
node_get_by_id(id) == node_get_by_id_now(id)
node_get_by_id_after(id) ==
  node_get_mutable_by_id([nl |-> the_nodelist', heap |-> heap'], id)

RsOf(ns) ==
  IF ns = NULL THEN {}
  ELSE {ns.routerstatus_list[i] : i \in 1..Len(ns.routerstatus_list)}
Listed(ns) == {rs.identity_digest : rs \in RsOf(ns)}

\* a step of nodelist_set_consensus: only it changes the current consensus
SetConsensusStep == cur_ns' # cur_ns

\* the nodes that hold md before and after a step, by identity
Holders(md) == {heap[o].identity : o \in {p \in IndexNodes : heap[p].md = md}}
HoldersAfter(md) ==
  IF the_nodelist' = NULL THEN {}
  ELSE {heap'[o].identity :
          o \in {p \in the_nodelist'.nodes_by_id : heap'[p].md = md}}

\* over a step, the counter of md falls by the attachments it lost and
\* rises by those it gained
RefcountStep(md) ==
  held_by_nodes'[md] = held_by_nodes[md]
                         - Cardinality(Holders(md) \ HoldersAfter(md))
                         + Cardinality(HoldersAfter(md) \ Holders(md))

(***************************************************************************)
(* C1: every node of the nodelist has an ri or an rs; none is left with    *)
(* only an md or with nothing.                                             *)
(***************************************************************************)
C1_NodeHasRiOrRs ==
  \A o \in IndexNodes \cup SeqNodes :
    /\ heap[o] # NULL
    /\ heap[o].ri # NULL \/ heap[o].rs # NULL

\* a consensus is installed, one node lives on its ri alone and another
\* identity has no node
C1_Witness ==
  /\ cur_ns # NULL
  /\ \E o \in IndexNodes : heap[o].ri # NULL /\ heap[o].rs = NULL
  /\ \E id \in Ids : node_get_by_id(id) = 0

(***************************************************************************)
(* C2: for every md, held_by_nodes is the number of nodes of the nodelist  *)
(* whose md it is (so it is never negative).                               *)
(***************************************************************************)
C2_RefcountIsHolders ==
  \A md \in AllMicrodescs :
    held_by_nodes[md] = Cardinality({o \in IndexNodes : heap[o].md = md})

\* one md is held by two nodes while another one of the cache is held by none
C2_Witness ==
  \E md \in md_cache, other \in md_cache :
    held_by_nodes[md] = 2 /\ held_by_nodes[other] = 0

(***************************************************************************)
(* C3: the identity index and the node sequence hold the same nodes, each  *)
(* once, and seq[node.nodelist_idx] is the node; nodelist_drop_node moves  *)
(* the last element into the vacated slot, rewrites its index and sets the *)
(* dropped node's index to -1.                                             *)
(***************************************************************************)
IndexMatchesSeq ==
  the_nodelist # NULL =>
    /\ IndexNodes = SeqNodes
    /\ Len(the_nodelist.nodes) = Cardinality(IndexNodes)
    /\ \A o \in IndexNodes :
         /\ 0 <= heap[o].nodelist_idx
         /\ heap[o].nodelist_idx < Len(the_nodelist.nodes)
         /\ smartlist_get(the_nodelist.nodes, heap[o].nodelist_idx) = o

DropMovesLast(o) ==
  LET sl == the_nodelist.nodes
      n == Len(sl)
      idx == heap[o].nodelist_idx
      S == nodelist_drop_node(Current, o, TRUE)
  IN  /\ S.heap[o].nodelist_idx = -1
      /\ S.nl.nodes_by_id = IndexNodes \ {o}
      /\ Len(S.nl.nodes) = n - 1
      /\ \A i \in 0..(n - 2) :
           /\ smartlist_get(S.nl.nodes, i) =
                IF i = idx THEN sl[n] ELSE smartlist_get(sl, i)
           /\ S.heap[smartlist_get(S.nl.nodes, i)].nodelist_idx = i

C3_IndexAndSequence ==
  /\ IndexMatchesSeq
  /\ \A o \in IndexNodes : DropMovesLast(o)

\* the sequence has two nodes or more, not in the order of their
\* identities, and the first can be dropped by taking its ri away
C3_Witness ==
  /\ the_nodelist # NULL
  /\ Len(the_nodelist.nodes) >= 2
  /\ heap[the_nodelist.nodes[1]].rs = NULL
  /\ heap[the_nodelist.nodes[1]].identity > heap[the_nodelist.nodes[2]].identity

(***************************************************************************)
(* C4: every rs a node has is an element of the routerstatus_list of the   *)
(* consensus last given to nodelist_set_consensus; no node keeps an rs of  *)
(* an earlier consensus.                                                   *)
(***************************************************************************)
C4_RsOfCurrentConsensus ==
  \A o \in IndexNodes : heap[o].rs # NULL => heap[o].rs \in RsOf(cur_ns)

\* a consensus was replaced, and a node it does not list survives on its ri
C4_Witness ==
  /\ cur_ns # NULL
  /\ cur_ns.obj # 1
  /\ \E o \in IndexNodes :
       /\ heap[o].ri # NULL
       /\ heap[o].rs = NULL
       /\ heap[o].is_valid = FALSE
  /\ \E o \in IndexNodes : heap[o].rs # NULL

(***************************************************************************)
(* C5: when the current consensus is microdesc-flavored, every node that   *)
(* has an rs has as md the microdesc of the cache whose digest is          *)
(* rs.descriptor_digest (none when the cache has none): the condition      *)
(* nodelist_assert_ok asserts for the routerstatuses of the consensus.     *)
(***************************************************************************)
\* lines 491-509 of nodelist_assert_ok for the routerstatus rs
assert_ok_rs(ns, rs) ==
  LET node == node_get_by_id(rs.identity_digest)
  IN  /\ node # 0
      /\ heap[node].rs = rs
      /\ ns.flavor = FLAV_MICRODESC =>
           LET md == microdesc_cache_lookup_by_digest256(md_cache,
                                                         rs.descriptor_digest)
           IN  /\ md = heap[node].md
               /\ md # NULL => held_by_nodes[md] >= 1

C5_CachedMdIsAttached ==
  (cur_ns # NULL /\ cur_ns.flavor = FLAV_MICRODESC) =>
    \A o \in IndexNodes :
      heap[o].rs # NULL =>
        /\ heap[o].md = microdesc_cache_lookup_by_digest256(
                          md_cache, heap[o].rs.descriptor_digest)
        /\ assert_ok_rs(cur_ns, heap[o].rs)

(***************************************************************************)
(* C6: there is at most one node per identity, and node_get_by_id answers  *)
(* the same node object from the node's creation until it is dropped: no   *)
(* operation frees a node and makes another for its identity, and          *)
(* set_consensus, set_routerinfo, add_microdesc and purge do not free a    *)
(* node that has an ri or whose identity both the old and the new          *)
(* consensus list.                                                         *)
(***************************************************************************)
\* S is the nodelist an operation leaves when called in the current state,
\* ns the current consensus after it
SameObject(S) ==
  \A o \in IndexNodes :
    LET id == heap[o].identity
    IN  /\ id \notin S.freed => node_get_mutable_by_id(S, id) = o
        /\ id \in S.freed => id \notin S.created

NotDestroyed(S, ns) ==
  /\ SameObject(S)
  /\ \A o \in IndexNodes :
       LET id == heap[o].identity
       IN  (heap[o].ri # NULL \/ (id \in Listed(cur_ns) /\ id \in Listed(ns)))
             => /\ id \notin S.freed
                /\ id \notin S.created
                /\ node_get_mutable_by_id(S, id) = o

C6_OneNodePerIdentity ==
  /\ \A o1, o2 \in IndexNodes :
       heap[o1].identity = heap[o2].identity => o1 = o2
  /\ \A ri \in CoreRouterInfos :
       /\ NotDestroyed(nodelist_set_routerinfo(Current, options, ri, {}),
                       cur_ns)
       /\ SameObject(nodelist_remove_routerinfo(Current, ri))
  /\ \A md \in CoreMicrodescs :
       /\ \A rs \in StatusesByDescriptorDigest(md_ns, md.digest) :
            NotDestroyed(nodelist_add_microdesc(Current, md_ns, md, rs),
                         cur_ns)
       /\ \A id \in Ids : SameObject(nodelist_remove_microdesc(Current, id, md))
  /\ \A order \in HtOrders(Current) :
       NotDestroyed(nodelist_purge(Current, order), cur_ns)
  /\ \A f \in {FLAV_NS, FLAV_MICRODESC}, l \in CoreListings :
       LET ns == Consensus(FreshNs, f, l)
       IN  \A order \in HtOrders(set_consensus_attach(Current, options,
                                                      md_cache, ns)) :
             NotDestroyed(nodelist_set_consensus(Current, options, md_cache,
                                                 ns, order), ns)

\* node 1 has an ri and the rs of a consensus that replaced another one,
\* and a node without ri is listed too
C6_Witness ==
  /\ cur_ns # NULL /\ cur_ns.obj # 1
  /\ Cardinality(IndexNodes) = 2
  /\ \E o \in IndexNodes : heap[o].ri # NULL /\ heap[o].rs # NULL
  /\ \E o \in IndexNodes : heap[o].ri = NULL /\ heap[o].rs # NULL

(***************************************************************************)
(* C7: after nodelist_set_consensus with a microdesc-flavored consensus,   *)
(* every node the consensus lists has as md the microdesc of the cache     *)
(* whose digest is its rs.descriptor_digest, or none when the cache has    *)
(* none; the counter of every md falls by one for each node it was         *)
(* detached from and rises by one for each node it was attached to.        *)
(***************************************************************************)
MdOfListedNodes ==
  \A rs \in RsOf(cur_ns') :
    LET o == node_get_by_id_after(rs.identity_digest)
    IN  /\ o # 0
        /\ heap'[o].rs = rs
        /\ heap'[o].md = microdesc_cache_lookup_by_digest256(
                           md_cache', rs.descriptor_digest)

C7_SetConsensusAttachesMd ==
  [][(SetConsensusStep /\ cur_ns'.flavor = FLAV_MICRODESC) =>
       /\ MdOfListedNodes
       /\ \A md \in AllMicrodescs : RefcountStep(md)]_vars

\* a microdesc consensus is current; one node holds the cached md its rs
\* names and another is listed with a digest the cache does not have; a
\* consensus that exchanges the two digests makes the first lose its md
\* and the second take it
C7_Witness ==
  /\ cur_ns # NULL /\ cur_ns.flavor = FLAV_MICRODESC
  /\ \E o1, o2 \in IndexNodes, m \in md_cache :
       /\ heap[o1].rs # NULL /\ heap[o1].md = m /\ held_by_nodes[m] = 1
       /\ m.digest = heap[o1].rs.descriptor_digest
       /\ heap[o2].rs # NULL /\ heap[o2].md = NULL
       /\ microdesc_cache_lookup_by_digest256(
            md_cache, heap[o2].rs.descriptor_digest) = NULL
       /\ \E l \in CoreListings :
            /\ l[heap[o1].identity] # NULL
            /\ l[heap[o1].identity].descriptor_digest = 
                 heap[o2].rs.descriptor_digest
            /\ l[heap[o2].identity] # NULL
            /\ l[heap[o2].identity].descriptor_digest = m.digest
            /\ LET ns == Consensus(FreshNs, FLAV_MICRODESC, l)
               IN  \E order \in HtOrders(set_consensus_attach(
                                           Current, options, md_cache, ns)) :
                     LET S == nodelist_set_consensus(Current, options,
                                                     md_cache, ns, order)
                     IN  /\ S.heap[o1].md = NULL
                         /\ S.heap[o2].md = m
                         /\ S.held[m] = 1

(***************************************************************************)
(* C8: after nodelist_set_consensus, every node that had an md and is not  *)
(* listed in the new consensus has lost that md, whose counter fell by     *)
(* one for it; the node is gone from the nodelist (node_get_by_id answers  *)
(* none) when it had no ri, and is still there, with its ri and without    *)
(* md and rs, when it had one.                                             *)
(***************************************************************************)
UnlistedNodeLosesMd(o) ==
  LET n == heap[o]
      id == n.identity
      after == node_get_by_id_after(id)
  IN  /\ id \notin HoldersAfter(n.md)
      /\ RefcountStep(n.md)
      /\ IF n.ri = NULL
           THEN /\ after = 0
                /\ \A i \in 1..Len(the_nodelist'.nodes) :
                     the_nodelist'.nodes[i] # o
           ELSE /\ after = o
                /\ heap'[o].ri = n.ri
                /\ heap'[o].md = NULL
                /\ heap'[o].rs = NULL

C8_SetConsensusDetachesUnlisted ==
  [][SetConsensusStep =>
       \A o \in IndexNodes :
         (heap[o].md # NULL /\ heap[o].identity \notin Listed(cur_ns'))
           => UnlistedNodeLosesMd(o)]_vars

\* a node with an md and an ri and a node with an md and no ri, and a
\* consensus listing neither: nodelist_set_consensus leaves the first
\* without md and drops the second
C8_Witness ==
  \E o1, o2 \in IndexNodes :
    /\ heap[o1].md # NULL /\ heap[o1].ri # NULL
    /\ heap[o2].md # NULL /\ heap[o2].ri = NULL
    /\ heap[o1].md = heap[o2].md
    /\ LET ns == Consensus(FreshNs, FLAV_MICRODESC, [id \in Ids |-> NULL])
       IN  \E order \in HtOrders(set_consensus_attach(Current, options,
                                                      md_cache, ns)) :
             LET S == nodelist_set_consensus(Current, options, md_cache, ns,
                                             order)
             IN  /\ S.heap[o1].md = NULL
                 /\ S.heap[o2] = NULL
                 /\ S.held[heap[o1].md] = 0

(***************************************************************************)
(* C9: when nodelist_set_routerinfo replaces the ri of a node by an ri     *)
(* whose OR addresses differ from the old one's, then on return the node   *)
(* has last_reachable = 0 and last_reachable6 = 0, and its country is      *)
(* the one node_set_country finds for its address (that of its rs when it  *)
(* has one, else that of the new ri): -1 only when the GeoIP database has  *)
(* no country for it.                                                      *)
(***************************************************************************)
\* a step in which node o gets another ri, at other OR addresses: a step of
\* nodelist_set_routerinfo
RiReplacedAtNewAddr(o) ==
  /\ o \in IndexNodes
  /\ heap[o].ri # NULL
  /\ heap'[o] # NULL
  /\ heap'[o].ri # NULL
  /\ ~routers_have_same_or_addrs(heap[o].ri, heap'[o].ri)

CountryOf(n) ==
  geoip_get_country_by_addr(IF n.rs # NULL THEN n.rs.addr ELSE n.ri.addr)

C9_AddrChangeResets ==
  [][\A o \in Objs :
       RiReplacedAtNewAddr(o) =>
         /\ heap'[o].last_reachable = 0
         /\ heap'[o].last_reachable6 = 0
         /\ heap'[o].country = CountryOf(heap'[o])]_vars

\* C9 as the specification states it: the country is -1 on return
C9_CountryLeftUnset ==
  [][\A o \in Objs :
       RiReplacedAtNewAddr(o) =>
         /\ heap'[o].last_reachable = 0
         /\ heap'[o].last_reachable6 = 0
         /\ heap'[o].country = -1]_vars

\* a node that was reached over IPv4 and IPv6 at an address whose country
\* is known, and is not in the consensus: an ri at another address whose
\* country is known resets the times and gives it the new country
C9_Witness ==
  \E o \in IndexNodes :
    /\ heap[o].ri # NULL /\ heap[o].rs = NULL
    /\ heap[o].last_reachable > 0 /\ heap[o].last_reachable6 > 0
    /\ heap[o].country = heap[o].ri.addr
    /\ \E ri \in AddrRouterInfos :
         /\ ri.identity_digest = heap[o].identity
         /\ ri.addr # heap[o].ri.addr
         /\ LET S == nodelist_set_routerinfo(Current, options, ri, {})
            IN  /\ S.heap[o].ri = ri
                /\ S.heap[o].last_reachable = 0
                /\ S.heap[o].last_reachable6 = 0
                /\ S.heap[o].country = ri.addr
                /\ S.heap[o].country # heap[o].country

(***************************************************************************)
(* C10: where the flags of the consensus are believed (not a v3            *)
(* authority, so on every non-authority), after nodelist_set_consensus(ns) *)
(* every node listed in ns has each mirrored flag equal to the flag of     *)
(* its new rs, has ipv6_preferred true iff IPv6 ORPorts are preferred and  *)
(* its rs or its md has a non-null IPv6 address, and has the ri it had     *)
(* before the call.                                                        *)
(***************************************************************************)
FlagsMirror(n, rs) ==
  /\ n.is_valid = rs.is_valid
  /\ n.is_running = rs.is_flagged_running
  /\ n.is_fast = rs.is_fast
  /\ n.is_stable = rs.is_stable
  /\ n.is_possible_guard = rs.is_possible_guard
  /\ n.is_exit = rs.is_exit
  /\ n.is_bad_exit = rs.is_bad_exit
  /\ n.is_hs_dir = rs.is_hs_dir

RiBefore(id) ==
  IF node_get_by_id(id) = 0 THEN NULL ELSE heap[node_get_by_id(id)].ri

C10_ConsensusFlagsMirrored ==
  [][(SetConsensusStep /\ ~authdir_mode_v3(options)) =>
       \A rs \in RsOf(cur_ns') :
         LET o == node_get_by_id_after(rs.identity_digest)
         IN  /\ o # 0
             /\ heap'[o].rs = rs
             /\ FlagsMirror(heap'[o], rs)
             /\ heap'[o].ipv6_preferred =
                  (/\ options.ClientPreferIPv6ORPort
                   /\ \/ rs.ipv6_addr # 0
                      \/ (heap'[o].md # NULL /\ heap'[o].md.ipv6_addr # 0))
             /\ heap'[o].ri = RiBefore(rs.identity_digest)]_vars

\* a client that prefers IPv6 ORPorts, after a second consensus: a node
\* with an ri whose rs has no IPv6 address and whose md has one is
\* preferred over IPv6, and another listed node has other flags
C10_Witness ==
  /\ ~authdir_mode(options) /\ options.ClientPreferIPv6ORPort
  /\ cur_ns # NULL /\ cur_ns.obj # 1
  /\ \E o1, o2 \in IndexNodes :
       /\ heap[o1].ri # NULL /\ heap[o1].rs # NULL
       /\ heap[o1].rs.ipv6_addr = 0
       /\ heap[o1].md # NULL /\ heap[o1].md.ipv6_addr # 0
       /\ heap[o1].ipv6_preferred
       /\ FlagsMirror(heap[o1], heap[o1].rs)
       /\ heap[o2].rs # NULL
       /\ FlagsMirror(heap[o2], heap[o2].rs)
       /\ heap[o1].is_exit # heap[o2].is_exit
       /\ heap[o1].is_bad_exit # heap[o1].is_exit

(***************************************************************************)
(* C11: where the flags of the consensus are believed (not a v3            *)
(* authority, so on every non-authority), after nodelist_set_consensus     *)
(* every node of the nodelist that has an ri of the general purpose and    *)
(* no rs has is_valid, is_running, is_fast, is_stable, is_possible_guard,  *)
(* is_exit, is_bad_exit, is_hs_dir and ipv6_preferred cleared, whatever    *)
(* they were; rejects_all is left as it was.                               *)
(***************************************************************************)
UnlistedGeneral(n) ==
  n.rs = NULL /\ n.ri # NULL /\ n.ri.purpose = ROUTER_PURPOSE_GENERAL

ConsensusFlagsClear(n) ==
  /\ ~n.is_valid /\ ~n.is_running /\ ~n.is_fast /\ ~n.is_stable
  /\ ~n.is_possible_guard /\ ~n.is_exit /\ ~n.is_bad_exit /\ ~n.is_hs_dir
  /\ ~n.ipv6_preferred

SameNodeSet(S) ==
  /\ S.created = {} /\ S.freed = {}
  /\ IF the_nodelist = NULL
       THEN S.nl = NULL \/ (S.nl.nodes = <<>> /\ S.nl.nodes_by_id = {})
       ELSE S.nl = the_nodelist

\* the counters after md is attached in place of old
HeldAfterSwap(old, md) ==
  [m \in AllMicrodescs |->
     held_by_nodes[m] - (IF m = old THEN 1 ELSE 0) + (IF m = md THEN 1 ELSE 0)]

AddMicrodescEffect(md, rs) ==
  LET S == nodelist_add_microdesc(Current, md_ns, md, rs)
      node == IF rs = NULL THEN 0 ELSE node_get_by_id(rs.identity_digest)
  IN  /\ SameNodeSet(S)
      /\ IF md_ns # NULL /\ rs # NULL /\ node # 0
           THEN /\ rs \in RsOf(md_ns) /\ rs.descriptor_digest = md.digest
                /\ S.heap = [heap EXCEPT ![node].md = md]
                /\ S.held = HeldAfterSwap(heap[node].md, md)
           ELSE /\ S.heap = heap
                /\ S.held = held_by_nodes

C12_AddMicrodescFrame ==
  \A md \in AllMicrodescs :
    \A rs \in StatusesByDescriptorDigest(md_ns, md.digest) :
      AddMicrodescEffect(md, rs)

\* the latest microdesc consensus lists two identities with different
\* digests; the node of the one holds another instance of the md of its
\* digest and the node of the other is gone: adding the md of each digest
\* changes the first node only
C12_Witness ==
  /\ md_ns # NULL
  /\ \E rs1, rs2 \in RsOf(md_ns) :
       /\ rs1.descriptor_digest # rs2.descriptor_digest
       /\ node_get_by_id(rs2.identity_digest) = 0
       /\ LET o == node_get_by_id(rs1.identity_digest)
          IN  /\ o # 0
              /\ heap[o].md # NULL
              /\ heap[o].md.digest = rs1.descriptor_digest
              /\ held_by_nodes[heap[o].md] = 1
              /\ \E md \in AllMicrodescs :
                   /\ md # heap[o].md /\ md.digest = rs1.descriptor_digest
                   /\ LET S == nodelist_add_microdesc(Current, md_ns, md, rs1)
                      IN  /\ S.heap[o].md = md
                          /\ S.held[md] = 1
                          /\ S.held[heap[o].md] = 0
       /\ \E md \in AllMicrodescs :
            /\ md.digest = rs2.descriptor_digest
            /\ nodelist_add_microdesc(Current, md_ns, md, rs2) = Current

(***************************************************************************)
(* C13: nodelist_remove_microdesc(id, md) sets the md of the node with     *)
(* identity id to NULL and decrements md's counter iff that node exists    *)
(* and its md is the instance md; otherwise (no node of that identity, a   *)
(* node holding another md or none) the nodelist and every counter are     *)
(* unchanged.                                                              *)
(***************************************************************************)
RemoveMicrodescEffect(id, md) ==
  LET S == nodelist_remove_microdesc(Current, id, md)
      node == node_get_by_id(id)
  IN  IF node # 0 /\ heap[node].md = md
        THEN /\ SameNodeSet(S)
             /\ S.heap = [heap EXCEPT ![node].md = NULL]
             /\ S.held = HeldAfterSwap(md, NULL)
        ELSE S = Current

C13_RemoveMicrodescFrame ==
  \A id \in Ids, md \in AllMicrodescs : RemoveMicrodescEffect(id, md)

\* a node holds an md that it shares with nobody and an identity has no
\* node: removing the md from the node detaches it, removing another
\* instance with the same digest or another md from it, or the md from the
\* identity without node, changes nothing
C13_Witness ==
  \E o \in IndexNodes, id2 \in Ids :
    LET m == heap[o].md
        id == heap[o].identity
    IN  /\ m # NULL /\ held_by_nodes[m] = 1
        /\ node_get_by_id(id2) = 0
        /\ nodelist_remove_microdesc(Current, id, m).heap[o].md = NULL
        /\ nodelist_remove_microdesc(Current, id, m).held[m] = 0
        /\ nodelist_remove_microdesc(Current, id2, m) = Current
        /\ \E m2, m3 \in AllMicrodescs :
             /\ m2 # m /\ m2.digest = m.digest
             /\ m3.digest # m.digest
             /\ nodelist_remove_microdesc(Current, id, m2) = Current
             /\ nodelist_remove_microdesc(Current, id, m3) = Current

(***************************************************************************)
(* C14: nodelist_remove_routerinfo(ri) detaches ri from the node of ri's   *)
(* identity; the node is then dropped and freed iff it has no rs, and is   *)
(* kept with its rs and md unchanged otherwise.  When the node holds       *)
(* another instance than ri, or there is no node, the nodelist is          *)
(* unchanged.                                                              *)
(***************************************************************************)
\* routerinfos of every identity, the instance the nodes of Spec hold and
\* one that replaced it
RouterInfoInstances ==
  {RouterInfo(id, a, 0, ROUTER_PURPOSE_GENERAL) : id \in Ids, a \in 1..2}

\* node is gone from S, its md released, and the other nodes are as in the
\* state but for their place in the sequence
DroppedAndFreed(S, node) ==
  /\ node \notin S.nl.nodes_by_id
  /\ \A i \in 1..Len(S.nl.nodes) : S.nl.nodes[i] # node
  /\ S.nl.nodes_by_id = IndexNodes \ {node}
  /\ Len(S.nl.nodes) = Len(the_nodelist.nodes) - 1
  /\ S.heap[node] = NULL
  /\ S.freed = {heap[node].identity} /\ S.created = {}
  /\ node_get_mutable_by_id(S, heap[node].identity) = 0
  /\ S.held = HeldAfterSwap(heap[node].md, NULL)
  /\ \A p \in IndexNodes \ {node} :
       [S.heap[p] EXCEPT !.nodelist_idx = 0]
         = [heap[p] EXCEPT !.nodelist_idx = 0]

RemoveRouterinfoEffect(ri) ==
  LET S == nodelist_remove_routerinfo(Current, ri)
      node == node_get_by_id(ri.identity_digest)
  IN  IF node # 0 /\ heap[node].ri = ri
        THEN IF heap[node].rs = NULL
               THEN DroppedAndFreed(S, node)
               ELSE /\ SameNodeSet(S)
                    /\ S.heap = [heap EXCEPT ![node].ri = NULL]
                    /\ S.held = held_by_nodes
        ELSE S = Current

C14_RemoveRouterinfoEffect ==
  \A ri \in RouterInfoInstances : RemoveRouterinfoEffect(ri)

\* one node has an ri, an rs and an md, another has only an ri and is not
\* the last of the sequence: removing the ri of the first leaves it with rs
\* and md, removing the ri of the second frees it, and removing another
\* instance changes nothing
C14_Witness ==
  \E o1, o2 \in IndexNodes :
    /\ heap[o1].ri # NULL /\ heap[o1].rs # NULL /\ heap[o1].md # NULL
    /\ heap[o2].ri # NULL /\ heap[o2].rs = NULL
    /\ heap[o2].nodelist_idx = 0 /\ Len(the_nodelist.nodes) = 2
    /\ LET S == nodelist_remove_routerinfo(Current, heap[o1].ri)
       IN  S.heap[o1].ri = NULL /\ S.heap[o1].rs = heap[o1].rs
             /\ S.heap[o1].md = heap[o1].md
    /\ LET S == nodelist_remove_routerinfo(Current, heap[o2].ri)
       IN  S.heap[o2] = NULL /\ S.nl.nodes = <<o1>>
    /\ \E ri \in RouterInfoInstances :
         /\ ri.identity_digest = heap[o1].identity /\ ri # heap[o1].ri
         /\ nodelist_remove_routerinfo(Current, ri) = Current

(***************************************************************************)
(* C15: nodelist_set_routerinfo(ri) followed by                            *)
(* nodelist_remove_routerinfo(ri), for an identity that had no ri, leaves  *)
(* the same nodes in the same sequence with the rs and md they had and     *)
(* the same counters; on an empty nodelist it leaves the index and the     *)
(* sequence empty.                                                         *)
(***************************************************************************)
SetThenRemove(ri) ==
  nodelist_remove_routerinfo(
    nodelist_set_routerinfo(Current, options, ri, {}), ri)

NoRiBefore(ri) ==
  \/ node_get_by_id(ri.identity_digest) = 0
  \/ heap[node_get_by_id(ri.identity_digest)].ri = NULL

PairRestores(ri) ==
  LET S == SetThenRemove(ri)
  IN  /\ S.nl.nodes_by_id = IndexNodes
      /\ S.nl.nodes = (IF the_nodelist = NULL THEN <<>>
                       ELSE the_nodelist.nodes)
      /\ S.held = held_by_nodes
      /\ \A o \in IndexNodes :
           /\ S.heap[o] # NULL
           /\ S.heap[o].identity = heap[o].identity
           /\ S.heap[o].ri = heap[o].ri
           /\ S.heap[o].rs = heap[o].rs
           /\ S.heap[o].md = heap[o].md
           /\ S.heap[o].nodelist_idx = heap[o].nodelist_idx
      /\ \A o \in Objs \ IndexNodes : S.heap[o] = NULL

C15_SetThenRemoveRestores ==
  \A ri \in RouterInfoInstances : NoRiBefore(ri) => PairRestores(ri)

\* the nodelist has one node, with an rs and an md and no ri, and there is
\* an identity without node: the pair leaves the one node as it was, for
\* its identity and for the other
C15_Witness ==
  /\ Cardinality(IndexNodes) = 1
  /\ \E o \in IndexNodes, ri1, ri2 \in RouterInfoInstances :
       /\ heap[o].ri = NULL /\ heap[o].rs # NULL /\ heap[o].md # NULL
       /\ ri1.identity_digest = heap[o].identity
       /\ node_get_by_id(ri2.identity_digest) = 0
       /\ nodelist_set_routerinfo(Current, options, ri1, {}).heap[o].ri = ri1
       /\ Len(nodelist_set_routerinfo(Current, options, ri2, {}).nl.nodes) = 2
       /\ SetThenRemove(ri1).heap[o] = heap[o]
       /\ SetThenRemove(ri2).nl = the_nodelist

(***************************************************************************)
(* C16: nodelist_purge is idempotent: in every state in which it is        *)
(* called, a second purge right after a first leaves the nodes, their      *)
(* attachments and indices and the counters of the mds as the first left   *)
(* them, in whatever order the two walk the table.                         *)
(***************************************************************************)
PurgeTwiceIsOnce(S0) ==
  \A order1 \in HtOrders(S0) :
    LET S1 == nodelist_purge(S0, order1)
    IN  \A order2 \in HtOrders(S1) :
          LET S2 == nodelist_purge(S1, order2)
          IN  /\ S2.nl = S1.nl
              /\ \A o \in Objs : S2.heap[o] = S1.heap[o]
              /\ \A m \in AllMicrodescs : S2.held[m] = S1.held[m]

\* purge is called on the state an operation has left, and by
\* nodelist_set_consensus on the state its line 307 finds
C16_PurgeIdempotent ==
  /\ PurgeTwiceIsOnce(Current)
  /\ \A f \in {FLAV_NS, FLAV_MICRODESC}, l \in CoreListings :
       PurgeTwiceIsOnce(
         set_consensus_attach(Current, options, md_cache,
                              Consensus(FreshNs, f, l)))

\* a node with an ri holds an md and has no rs, beside a node that has an
\* rs: the first purge releases the md
C16_Witness ==
  /\ Cardinality(IndexNodes) = 2
  /\ \E o \in IndexNodes :
       /\ heap[o].ri # NULL /\ heap[o].rs = NULL /\ heap[o].md # NULL
       /\ \A order1 \in HtOrders(Current) :
            LET S1 == nodelist_purge(Current, order1)
            IN  /\ S1.heap[o].md = NULL
                /\ S1.held[heap[o].md] = held_by_nodes[heap[o].md] - 1
                /\ S1.heap # heap

(***************************************************************************)
(* The readiness estimator.                                                *)
(***************************************************************************)
\* what a call of router_have_minimum_dir_info would do in this state
CallOf(env) == router_have_minimum_dir_info(Estimator, options, env)

\* the call recomputes only when the dirty bit is set, a recomputation
\* clears the bit, and at most one recomputation has happened since the
\* last router_dir_info_changed
RecomputesOnce ==
  /\ n_updates <= 1
  /\ \A env \in DirInfoEnvs :
       \E R \in {CallOf(env)} :
         /\ R.updated => ~R.need_to_update_have_min_dir_info
         /\ ~need_to_update_have_min_dir_info => ~R.updated

\* C17 as stated: router_have_minimum_dir_info recomputes at most once
\* between two calls of router_dir_info_changed, every recomputation clears
\* the dirty bit, and a call made while the bit is clear returns the cached
\* have_min_dir_info and emits no event.
C17_RepeatedCallReturnsCached ==
  /\ RecomputesOnce
  /\ \A env \in DirInfoEnvs :
       \E R \in {CallOf(env)} :
         ~need_to_update_have_min_dir_info =>
           R.result = have_min_dir_info /\ R.events = <<>>

\* C17, amended: router_have_minimum_dir_info recomputes at most once
\* between two calls of router_dir_info_changed, every recomputation clears
\* the dirty bit, and a call made while the bit is clear emits no event,
\* leaves have_min_dir_info and have_consensus_path alone, and returns the
\* cached have_min_dir_info unless directory fetches are being delayed,
\* when it returns false.
C17_LazyRecomputation ==
  /\ RecomputesOnce
  /\ \A env \in DirInfoEnvs :
       \E R \in {CallOf(env)} :
         ~need_to_update_have_min_dir_info =>
           /\ R.events = <<>>
           /\ R.have_min_dir_info = have_min_dir_info
           /\ R.have_consensus_path = have_consensus_path
           /\ R.result = (IF env.delay THEN FALSE ELSE have_min_dir_info)

\* one recomputation found enough directory information, the dirty bit is
\* clear, and a later call was made while fetches were delayed
C17_Witness ==
  /\ n_updates = 1
  /\ ~need_to_update_have_min_dir_info
  /\ have_min_dir_info
  /\ logged_delay

\* the events of a call that takes have_min_dir_info from before to after
EventsOfTransition(R) ==
  LET up == ~have_min_dir_info /\ R.have_min_dir_info
      down == have_min_dir_info /\ ~R.have_min_dir_info
      emitted == Range(R.events)
  IN  /\ "BOOTSTRAP_STATUS_CONN_OR" \in emitted <=> up
      /\ "ENOUGH_DIR_INFO" \in emitted <=> up
      /\ "NOT_ENOUGH_DIR_INFO" \in emitted <=> down
      /\ (up \/ down) => R.updated
      \* have_consensus_path is reset on the way down, and only then
      /\ down => R.have_consensus_path = CONSENSUS_PATH_UNKNOWN
      /\ ~down => R.have_consensus_path = have_consensus_path
                    \/ (R.counted /\ R.have_consensus_path
                                       # CONSENSUS_PATH_UNKNOWN)
      \* the client status events alternate, ENOUGH_DIR_INFO first
      /\ up => last_client_status # "ENOUGH_DIR_INFO"
      /\ down => last_client_status = "ENOUGH_DIR_INFO"

\* C18: a call emits BOOTSTRAP_STATUS_CONN_OR and ENOUGH_DIR_INFO exactly
\* when its recomputation takes have_min_dir_info from false to true, and
\* emits NOT_ENOUGH_DIR_INFO and resets have_consensus_path to UNKNOWN exactly
\* when it takes it from true to false; the last client status event is
\* ENOUGH_DIR_INFO exactly while have_min_dir_info is true, so the two kinds
\* alternate and ENOUGH_DIR_INFO comes first.
C18_EventsFollowTransitions ==
  /\ have_min_dir_info <=> last_client_status = "ENOUGH_DIR_INFO"
  /\ \A env \in DirInfoEnvs :
       \E R \in {CallOf(env)} : EventsOfTransition(R)

\* enough directory information was reported and the last call took it
\* back: NOT_ENOUGH_DIR_INFO was emitted and have_consensus_path reset
C18_Witness ==
  /\ ~have_min_dir_info
  /\ last_client_status = "NOT_ENOUGH_DIR_INFO"
  /\ "NOT_ENOUGH_DIR_INFO" \in Range(control_events)
  /\ have_consensus_path = CONSENSUS_PATH_UNKNOWN
  /\ cur_ns # NULL

\* C19: a call of router_have_minimum_dir_info made while directory fetches
\* are delayed returns false and leaves the delay reason in the status
\* string, whatever have_min_dir_info is; it does not recompute, does not
\* count descriptors, emits no controller event and leaves have_min_dir_info,
\* have_consensus_path and the dirty bit as they were.
C19_DelayedCallReturnsFalse ==
  \A env \in DelayedEnvs :
    \E R \in {CallOf(env)} :
      /\ R.result = FALSE
      /\ R.dir_info_status = env.msg
      /\ ~R.updated /\ ~R.counted
      /\ R.events = <<>>
      /\ R.have_min_dir_info = have_min_dir_info
      /\ R.have_consensus_path = have_consensus_path
      /\ R.need_to_update_have_min_dir_info = need_to_update_have_min_dir_info

\* a delayed call was made while have_min_dir_info was true and the dirty
\* bit set: the status string is the delay reason
C19_Witness ==
  /\ logged_delay
  /\ dir_info_status \in DelayMessages
  /\ have_min_dir_info
  /\ have_consensus_path = CONSENSUS_PATH_EXIT
  /\ need_to_update_have_min_dir_info

\* C20: a recomputation that finds no reasonably live consensus sets
\* have_min_dir_info to false (and the call returns false) without counting
\* descriptors; it leaves "We have no usable consensus." in the status
\* string when there is no consensus at all and "We have no recent usable
\* consensus." when there is one that is not reasonably live.
C20_NoLiveConsensus ==
  \A env \in UndelayedEnvs :
    \E R \in {CallOf(env)} :
      (/\ need_to_update_have_min_dir_info
       /\ networkstatus_get_reasonably_live_consensus(env.live) = NULL)
      => /\ R.updated /\ ~R.counted
         /\ ~R.have_min_dir_info
         /\ R.result = FALSE
         /\ cur_ns = NULL
              => R.dir_info_status = "We have no usable consensus."
         /\ cur_ns # NULL
              => R.dir_info_status = "We have no recent usable consensus."

\* the consensus went stale after enough directory information had been
\* reported, and the recomputation took have_min_dir_info back
C20_Witness ==
  /\ cur_ns # NULL
  /\ dir_info_status = "We have no recent usable consensus."
  /\ ~have_min_dir_info
  /\ ~need_to_update_have_min_dir_info
  /\ last_client_status = "NOT_ENOUGH_DIR_INFO"

\* C21: a recomputation with a reasonably live consensus for which the entry
\* guards report missing descriptors sets have_min_dir_info to false and
\* leaves the guard message in the status string; it does not count the
\* paths, so have_consensus_path keeps its value (or is reset to UNKNOWN
\* when have_min_dir_info was true) and is not set to EXIT or INTERNAL.
C21_GuardGate ==
  \A env \in UndelayedEnvs :
    \E R \in {CallOf(env)} :
      (/\ need_to_update_have_min_dir_info
       /\ networkstatus_get_reasonably_live_consensus(env.live) # NULL
       /\ ~env.guards_ok)
      => /\ R.updated /\ ~R.counted
         /\ ~R.have_min_dir_info
         /\ R.result = FALSE
         /\ R.dir_info_status = "We're missing descriptors for some of "
                                   \o "our primary entry guards"
         /\ R.have_consensus_path =
              (IF have_min_dir_info THEN CONSENSUS_PATH_UNKNOWN
               ELSE have_consensus_path)

\* the guard gate closed a recomputation over a consensus all of whose
\* paths are available
C21_Witness ==
  /\ cur_ns # NULL
  /\ dir_info_status = "We're missing descriptors for some of our "
                          \o "primary entry guards"
  /\ ~have_min_dir_info
  /\ ~need_to_update_have_min_dir_info
  /\ have_consensus_path = CONSENSUS_PATH_UNKNOWN
  /\ \E c \in {compute_frac_paths_available(cur_ns, options, {})} :
       c.f_path.n = c.f_path.d /\ c.num_usable = MaxId

\* whether the consensus lists a router with the Exit flag that a client
\* would use
HasUsableExit(ns) ==
  \E rs \in RsOf(ns) : rs.is_exit /\ client_would_use_router(rs)
PathOf(ns) ==
  IF HasUsableExit(ns) THEN CONSENSUS_PATH_EXIT ELSE CONSENSUS_PATH_INTERNAL

PathsNow == compute_frac_paths_available(cur_ns, options, {})
Reaches(f, env) ==
  ~(f.n * 100 < get_frac_paths_needed_for_circs(options, env.param) * f.d)

\* C23: over a consensus without a usable router with the Exit flag the
\* exit fraction is 1, also when ExitNodes is set and the fraction of its
\* members is lower, so f_path is f_guard * f_mid and a recomputation ends
\* with have_min_dir_info true exactly when f_guard * f_mid reaches the
\* threshold.
C23_ExitFractionForced ==
  (cur_ns # NULL /\ ~HasUsableExit(cur_ns)) =>
    \E c \in {PathsNow} :
      /\ c.have_consensus_path = CONSENSUS_PATH_INTERNAL
      /\ c.f_exit = Frac(1, 1)
      /\ c.f_path = FracTimes(c.f_guard, c.f_mid)
      /\ \A env \in PathEnvs :
           \E R \in {CallOf(env)} :
             R.counted =>
               (R.have_min_dir_info
                  <=> Reaches(FracTimes(c.f_guard, c.f_mid), env))

\* ExitNodes is set, the consensus lists no exit, the member of ExitNodes
\* has no descriptor, and the recomputation ended ready
C23_Witness ==
  /\ cur_ns # NULL
  /\ ~HasUsableExit(cur_ns)
  /\ options.ExitNodes # NULL
  /\ \E f \in {frac_myexit(cur_ns, options, {})} : f.n < f.d
  /\ PathsNow.f_exit = Frac(1, 1)
  /\ have_min_dir_info
  /\ have_consensus_path = CONSENSUS_PATH_INTERNAL

\* the threshold in percent: the option when it is set, else the parameter
\* of the consensus within 25..95, else 60
Threshold(env) ==
  IF options.PathsNeededToBuildCircuits >= 0
    THEN options.PathsNeededToBuildCircuits
  ELSE IF env.param = {} THEN 60
  ELSE IF \E v \in env.param : v < 25 THEN 25
  ELSE IF \E v \in env.param : v > 95 THEN 95
  ELSE Only(env.param)

\* C24: a recomputation that passes the consensus gate and the guard gate
\* ends with have_min_dir_info true exactly when
\* f_guard * f_mid * f_exit >= threshold, the threshold being
\* PathsNeededToBuildCircuits when that is not negative and else
\* min_paths_for_circs_pct / 100, the parameter kept within 25..95 and 60
\* when the consensus does not set it.
C24_ReadyIffThreshold ==
  cur_ns # NULL =>
    \E c \in {PathsNow} :
      /\ c.f_path = FracTimes(FracTimes(c.f_guard, c.f_mid), c.f_exit)
      /\ \A env \in PathEnvs :
           \E R \in {CallOf(env)} :
             R.counted =>
               /\ R.have_min_dir_info
                    <=> c.f_path.n * 100 >= Threshold(env) * c.f_path.d
               /\ R.result = R.have_min_dir_info

\* a quarter of the paths is available and PathsNeededToBuildCircuits is
\* not set: the recomputation ends ready on a parameter below 25 and not
\* ready without the parameter
C24_Witness ==
  /\ cur_ns # NULL
  /\ options.PathsNeededToBuildCircuits < 0
  /\ need_to_update_have_min_dir_info
  /\ \E c \in {PathsNow} : c.f_path.n * 4 = c.f_path.d
  /\ \E env \in PathEnvs :
       \E R \in {CallOf(env)} :
         env.param = {10} /\ R.counted /\ R.have_min_dir_info
  /\ \E env \in PathEnvs :
       \E R \in {CallOf(env)} :
         env.param = {} /\ R.counted /\ ~R.have_min_dir_info

\* the routerstatuses of the current consensus that a client would use:
\* all of them, the members of ExitNodes, those of the members that have
\* the Exit flag, and those of the members that are not known to reject
\* everything
NodeOfRs(rs) == heap[node_get_by_id_now(rs.identity_digest)]
UsableRs == {rs \in RsOf(cur_ns) : client_would_use_router(rs)}
ExitNodesMembers ==
  {rs \in UsableRs : rs.identity_digest \in options.ExitNodes.identities}
FlaggedMembers == {rs \in ExitNodesMembers : rs.is_exit}
SubstituteMembers ==
  {rs \in ExitNodesMembers :
     ~(node_has_descriptor(NodeOfRs(rs))
         /\ node_exit_policy_rejects_all(NodeOfRs(rs)))}
\* the fraction of a set of routerstatuses whose node has a descriptor
FracOf(set) ==
  IF set = {} THEN Frac(0, 1)
  ELSE Frac(Cardinality({rs \in set : node_has_descriptor(NodeOfRs(rs))}),
            Cardinality(set))
FracEq(a, b) == a.n * b.d = b.n * a.d
FracMin(a, b) == IF FracLess(b, a) THEN b ELSE a
MyExitFraction ==
  IF FlaggedMembers = {} /\ SubstituteMembers # {}
    THEN FracOf(SubstituteMembers)
    ELSE FracOf(FlaggedMembers)
LeastExitFraction ==
  FracMin(FracOf({rs \in UsableRs : rs.is_exit}), MyExitFraction)

\* C25 as stated: with ExitNodes set, the exit fraction that enters f_path
\* is the lesser of f_exit and f_myexit, f_myexit being the fraction of the
\* usable members of ExitNodes with the Exit flag, or, when there is none,
\* of the usable members that have no descriptor whose exit policy rejects
\* everything.
C25_LeastOfExitFractions ==
  (cur_ns # NULL /\ options.ExitNodes # NULL) =>
    FracEq(PathsNow.f_exit, LeastExitFraction)

\* C25, amended: with ExitNodes set and a usable router with the Exit flag
\* in the consensus, the exit fraction that enters f_path is the lesser of
\* f_exit and f_myexit, f_myexit being the fraction of the usable members
\* of ExitNodes with the Exit flag, or, when there is none, of the usable
\* members that have no descriptor whose exit policy rejects everything;
\* without a usable router with the Exit flag the exit fraction is 1.
C25_ExitNodesFraction ==
  (cur_ns # NULL /\ options.ExitNodes # NULL) =>
    \E c \in {PathsNow} :
      /\ FracEq(frac_myexit(cur_ns, options, {}), MyExitFraction)
      /\ HasUsableExit(cur_ns) => FracEq(c.f_exit, LeastExitFraction)
      /\ ~HasUsableExit(cur_ns) => c.f_exit = Frac(1, 1)
      /\ FracEq(c.f_path, FracTimes(FracTimes(c.f_guard, c.f_mid), c.f_exit))

\* the consensus has an exit with its descriptor, the member of ExitNodes
\* has no Exit flag and no descriptor: its fraction was substituted and,
\* being the lesser, left no path
C25_Witness ==
  /\ cur_ns # NULL
  /\ options.ExitNodes # NULL
  /\ HasUsableExit(cur_ns)
  /\ FlaggedMembers = {}
  /\ SubstituteMembers # {}
  /\ FracLess(PathsNow.f_exit, FracOf({rs \in UsableRs : rs.is_exit}))
  /\ have_consensus_path = CONSENSUS_PATH_EXIT
  /\ ~have_min_dir_info
  /\ ~need_to_update_have_min_dir_info


(***************************************************************************)
(* C26: the accessors of a node that has both an ri and an rs.             *)
(***************************************************************************)
\* the call in accessed was of the accessor fn on a node with ri and rs
CalledOnBoth(fn) ==
  /\ accessed # NULL
  /\ accessed.fn = fn
  /\ accessed.node.ri # NULL
  /\ accessed.node.rs # NULL

Ipv4Of(r) == AddrPort("AF_INET", r.addr, r.or_port)
Ipv6Of(r) == AddrPort("AF_INET6", r.ipv6_addr, r.ipv6_orport)
FurnishesIpv4(r) == tor_addr_port_is_valid_ipv4h(r.addr, r.or_port)
FurnishesIpv6(r) == tor_addr_port_is_valid(r.ipv6_addr, r.ipv6_orport)

\* C26 as stated: for the nickname, the directory capability, the IPv4 OR
\* address and port and the IPv6 OR address and port, the accessor of a node
\* that has both an ri and an rs (each furnishing the attribute) returns the
\* value of the ri.
C26_AccessorsPreferRi ==
  /\ CalledOnBoth("node_get_nickname") =>
       accessed.result = CStr(accessed.node.ri.nickname)
  /\ CalledOnBoth("node_is_dir") =>
       accessed.result = accessed.node.ri.supports_tunnelled_dir_requests
  /\ (/\ CalledOnBoth("node_get_prim_orport")
      /\ FurnishesIpv4(accessed.node.ri) /\ FurnishesIpv4(accessed.node.rs)) =>
       accessed.result.ap = Ipv4Of(accessed.node.ri)
  /\ (/\ CalledOnBoth("node_get_pref_ipv6_orport")
      /\ FurnishesIpv6(accessed.node.ri) /\ FurnishesIpv6(accessed.node.rs)) =>
       accessed.result = Ipv6Of(accessed.node.ri)

\* C26 amended: on a node that has both an ri and an rs, the nickname and
\* the directory capability are those of the rs; the IPv4 OR address and
\* port are those of the ri when they are valid and else those of the rs
\* when they are valid; likewise the IPv6 OR address and port.
C26_AccessorPrecedence ==
  /\ CalledOnBoth("node_get_nickname") =>
       accessed.result = CStr(accessed.node.rs.nickname)
  /\ CalledOnBoth("node_is_dir") =>
       accessed.result = accessed.node.rs.is_v2_dir
  /\ CalledOnBoth("node_get_prim_orport") =>
       /\ FurnishesIpv4(accessed.node.ri) =>
            accessed.result = [ret |-> 0, ap |-> Ipv4Of(accessed.node.ri)]
       /\ (~FurnishesIpv4(accessed.node.ri)
           /\ FurnishesIpv4(accessed.node.rs)) =>
            accessed.result = [ret |-> 0, ap |-> Ipv4Of(accessed.node.rs)]
  /\ CalledOnBoth("node_get_pref_ipv6_orport") =>
       /\ FurnishesIpv6(accessed.node.ri) =>
            accessed.result = Ipv6Of(accessed.node.ri)
       /\ (~FurnishesIpv6(accessed.node.ri)
           /\ FurnishesIpv6(accessed.node.rs)) =>
            accessed.result = Ipv6Of(accessed.node.rs)

\* the nickname of a node whose ri and rs give different nicknames was
\* asked for, and it is that of the rs
C26_Witness ==
  /\ CalledOnBoth("node_get_nickname")
  /\ accessed.node.ri.nickname # accessed.node.rs.nickname
  /\ accessed.result = CStr(accessed.node.rs.nickname)


(***************************************************************************)
(* C27: node_exit_policy_rejects_all.                                      *)
(***************************************************************************)
\* the nodes that differ in what node_exit_policy_rejects_all reads: the
\* cached bit, an ri that rejects everything or not, an md without exit
\* policy, with one that accepts nothing, or with one that accepts something
PolicyNodes ==
  {[NodeOf(ri, rs, md) EXCEPT !.rejects_all = b] :
     b \in BOOLEAN,
     ri \in {NULL, AccessRi, [AccessRi EXCEPT !.policy_is_reject_star = TRUE]},
     rs \in {NULL, AccessRs},
     md \in {NULL, AccessMd, [AccessMd EXCEPT !.exit_policy = NULL],
             [AccessMd EXCEPT !.exit_policy = [accept |-> {}]]}}

\* the nodes of the nodelist
ReachableNodes == {heap[o] : o \in IndexNodes}

RejectsAllAsStated(node, r) ==
  /\ node.rejects_all => r
  /\ (~node.rejects_all /\ node.ri # NULL) =>
       (r <=> node.ri.policy_is_reject_star)
  /\ (~node.rejects_all /\ node.ri = NULL /\ node.md # NULL) =>
       (r <=> (\/ node.md.exit_policy = NULL
               \/ short_policy_is_reject_star(node.md.exit_policy)))
  /\ (~node.rejects_all /\ node.ri = NULL /\ node.md = NULL) => r

\* C27: node_exit_policy_rejects_all(node) is true if the cached rejects_all
\* bit is set; else it is ri.policy_is_reject_star if an ri is attached; else
\* short_policy_is_reject_star of md.exit_policy (true when the md has no exit
\* policy) if an md is attached; else true.  A node of the nodelist that has
\* an rs but neither ri nor md is reported as rejecting all.
C27_ExitPolicyRejectsAll ==
  /\ \A node \in PolicyNodes \cup ReachableNodes :
       RejectsAllAsStated(node, node_exit_policy_rejects_all(node))
  /\ \A node \in ReachableNodes :
       (node.rs # NULL /\ node.ri = NULL /\ node.md = NULL) =>
         node_exit_policy_rejects_all(node)

\* the nodelist has a node with an rs and neither ri nor md, reported as
\* rejecting all, next to a node with a descriptor that is not
C27_Witness ==
  /\ \E node \in ReachableNodes :
       /\ node.rs # NULL /\ node.ri = NULL /\ node.md = NULL
       /\ node_exit_policy_rejects_all(node)
  /\ \E node \in ReachableNodes :
       /\ node.rs # NULL /\ node.md # NULL
       /\ ~node_exit_policy_rejects_all(node)


(***************************************************************************)
(* C28: node_supports_ed25519_link_authentication.                         *)
(***************************************************************************)
\* the call in accessed was of the accessor fn
Called(fn) == accessed # NULL /\ accessed.fn = fn

HasEd25519Id(node) == node_get_ed25519_id(node) # NULL
RiAdvertisesLinkAuth3(node) ==
  /\ node.ri # NULL
  /\ node.ri.protocol_list # NULL
  /\ 3 \in node.ri.protocol_list.LinkAuth
RsSetsLinkHandshake(node) ==
  node.rs # NULL /\ node.rs.supports_ed25519_link_handshake

\* C28 as stated: node_supports_ed25519_link_authentication(node) is true
\* iff the node has an Ed25519 id and (its ri's protocol list advertises
\* LinkAuth 3 or its rs sets supports_ed25519_link_handshake), also when an
\* ri is attached that has no protocol list or does not advertise LinkAuth 3.
C28_LinkAuthFromRiOrRs ==
  Called("node_supports_ed25519_link_authentication") =>
    (accessed.result <=>
       /\ HasEd25519Id(accessed.node)
       /\ \/ RiAdvertisesLinkAuth3(accessed.node)
          \/ RsSetsLinkHandshake(accessed.node))

\* C28 amended: it is true iff the node has an Ed25519 id and, when an ri
\* is attached, the protocol list of the ri advertises LinkAuth 3 (the rs is
\* not asked then), and when no ri is attached, its rs sets
\* supports_ed25519_link_handshake.
C28_LinkAuthFromRiElseRs ==
  Called("node_supports_ed25519_link_authentication") =>
    (accessed.result <=>
       /\ HasEd25519Id(accessed.node)
       /\ IF accessed.node.ri # NULL
            THEN RiAdvertisesLinkAuth3(accessed.node)
            ELSE RsSetsLinkHandshake(accessed.node))

\* the accessor was asked about a node with an Ed25519 id whose rs sets the
\* flag and whose ri has no protocol list, and answered no
C28_Witness ==
  /\ Called("node_supports_ed25519_link_authentication")
  /\ HasEd25519Id(accessed.node)
  /\ RsSetsLinkHandshake(accessed.node)
  /\ accessed.node.ri # NULL
  /\ accessed.node.ri.protocol_list = NULL
  /\ ~accessed.result


(***************************************************************************)
(* C29: node_get_pref_orport.                                              *)
(***************************************************************************)
HasValidIpv4(node) ==
  \E r \in {node.ri, node.rs} \ {NULL} : FurnishesIpv4(r)
HasValidIpv6(node) ==
  \E r \in {node.ri, node.rs, node.md} \ {NULL} : FurnishesIpv6(r)
WantsIpv6(node) ==
  /\ fascist_firewall_use_ipv6(options)
  /\ node.ipv6_preferred \/ ~HasValidIpv4(node)

\* C29 as stated: node_get_pref_orport(node) yields the IPv6 OR address and
\* port of the node iff use_ipv6() holds and (the ipv6_preferred bit of the
\* node is set or the node has no valid IPv4 OR port), and the IPv4 OR
\* address and port in every other case.
C29_Ipv6WhenWanted ==
  Called("node_get_pref_orport") =>
    accessed.result =
      IF WantsIpv6(accessed.node)
        THEN node_get_pref_ipv6_orport(accessed.node)
        ELSE node_get_prim_orport(accessed.node).ap

\* C29 amended: it yields the IPv6 OR address and port iff use_ipv6() holds
\* and (the ipv6_preferred bit is set or the node has no valid IPv4 OR
\* port) and the node has a valid IPv6 OR address and port; in every other
\* case it yields what node_get_prim_orport yields, the IPv4 OR address and
\* port or the null IPv4 address and port 0.
C29_Ipv6WhenWantedAndThere ==
  Called("node_get_pref_orport") =>
    /\ accessed.result =
         IF WantsIpv6(accessed.node) /\ HasValidIpv6(accessed.node)
           THEN node_get_pref_ipv6_orport(accessed.node)
           ELSE node_get_prim_orport(accessed.node).ap
    /\ (accessed.result.family = "AF_INET6") <=>
         (WantsIpv6(accessed.node) /\ HasValidIpv6(accessed.node))

\* a client that may use IPv6 asked for the preferred ORPort of a node that
\* prefers IPv6 and has a valid IPv4 ORPort and no IPv6 ORPort, and got the
\* IPv4 one
C29_Witness ==
  /\ Called("node_get_pref_orport")
  /\ fascist_firewall_use_ipv6(options)
  /\ accessed.node.ipv6_preferred
  /\ HasValidIpv4(accessed.node)
  /\ ~HasValidIpv6(accessed.node)
  /\ accessed.result.family = "AF_INET"
  /\ accessed.result.addr # 0


(***************************************************************************)
(* C30: node_get_by_hex_id.                                                *)
(***************************************************************************)
\* the node found for a token, now
LookupNow(hex_id) == node_get_by_hex_id(Current, cur_ns, hex_id)

\* the consensus binds the name to the identity
ConsensusBinds(name, id) ==
  /\ cur_ns # NULL
  /\ \E rs \in Range(cur_ns.routerstatus_list) :
       /\ rs.is_named
       /\ tor_strlower(rs.nickname) = tor_strlower(name)
       /\ rs.identity_digest = id

\* the nickname of the node is the name, but for the case
NicknameIs(o, name) ==
  \E r \in {heap[o].rs, heap[o].ri} \ {NULL} :
    /\ r = IF heap[o].rs # NULL THEN heap[o].rs ELSE heap[o].ri
    /\ tor_strlower(r.nickname) = tor_strlower(name)

\* what the token asks for: the node of the identity, bound by the consensus
\* to the name of a $hex=name, named as the name of a $hex~name
AskedFor(hex_id) ==
  LET d == hex_digest_nickname_decode(hex_id)
  IN  IF d.ret # 0 THEN {}
      ELSE {o \in IndexNodes :
              /\ heap[o].identity = d.digest
              /\ d.nn_char = "=" => ConsensusBinds(d.nn_buf, d.digest)
              /\ d.nn_char = "~" => NicknameIs(o, d.nn_buf)}

VerboseNow(o) == node_get_verbose_nickname(cur_ns, heap[o])

\* C31: for every node of the nodelist that has a nickname,
\* node_get_by_hex_id of the verbose nickname of the node returns that node,
\* when the nickname is Named for the identity of the node (the '=' form)
\* and when it is not (the '~' form).
C31_VerboseNicknameRoundTrip ==
  \A o \in IndexNodes :
    node_get_nickname(heap[o]) # NULL => LookupNow(VerboseNow(o)) = o

\* the verbose nickname last computed is the '=' form of a Named node and
\* finds it, while another node of the same nickname has the '~' form and
\* is found by it
C31_Witness ==
  /\ Called("node_get_verbose_nickname")
  /\ accessed.node \in IndexNodes
  /\ accessed.result = VerboseNow(accessed.node)
  /\ accessed.result[HexDigestLen + 2] = "="
  /\ LookupNow(accessed.result) = accessed.node
  /\ \E p \in IndexNodes :
       /\ p # accessed.node
       /\ node_get_nickname(heap[p]) = node_get_nickname(heap[accessed.node])
       /\ VerboseNow(p)[HexDigestLen + 2] = "~"
       /\ LookupNow(VerboseNow(p)) = p


(***************************************************************************)
(* C32: node_get_by_nickname of a bare nickname.                           *)
(***************************************************************************)
\* the lookup of a name, now
NicknameLookupNow(name, warn) ==
  node_get_by_nickname(Current, cur_ns, <<name>>, warn)

\* the identities the consensus binds the name to
BoundIds(name) == {id \in Ids : ConsensusBinds(name, id)}

\* the consensus lists the name as Unnamed
ListedUnnamed(name) ==
  \E rs \in RsOf(cur_ns) :
    rs.is_unnamed /\ tor_strlower(rs.nickname) = tor_strlower(name)

\* the first node of the sequence that has the name (0 when none has)
FirstOfName(name) ==
  LET at == {i \in 1..Len(the_nodelist.nodes) :
               NicknameIs(the_nodelist.nodes[i], name)}
  IN  IF at = {} THEN 0
      ELSE the_nodelist.nodes[CHOOSE i \in at : \A j \in at : i <= j]

\* the node the claim states for a name
StatedForName(name) ==
  IF the_nodelist = NULL THEN 0
  ELSE IF BoundIds(name) # {}
    THEN node_get_by_id(CHOOSE id \in BoundIds(name) : TRUE)
  ELSE IF ListedUnnamed(name) THEN 0
  ELSE FirstOfName(name)

\* a second lookup of the name with warn_if_unnamed, the nodelist being as
\* the first left it, logs nothing and finds the same node
WarnsOnce(name) ==
  LET first == NicknameLookupNow(name, TRUE)
      second == node_get_by_nickname(first.S, cur_ns, <<name>>, TRUE)
  IN  /\ second.log = <<>>
      /\ second.node = first.node
      /\ Len(first.log) <= 1

\* the nodes that live on in S keep a name_lookup_warned that is set
KeepsWarned(S) ==
  \A o \in IndexNodes :
    (heap[o].name_lookup_warned /\ heap[o].identity \notin S.freed)
      => (S.heap[o] # NULL /\ S.heap[o].name_lookup_warned)

\* no operation on the nodelist clears a name_lookup_warned
WarnedNeverCleared ==
  /\ \A ri \in NameRouterInfos :
       KeepsWarned(nodelist_set_routerinfo(Current, options, ri, {}))
  /\ \A l \in NameListings :
       \A ns \in {Consensus(FreshNs, FLAV_NS, l)} :
         \A order \in HtOrders(set_consensus_attach(Current, options,
                                                    md_cache, ns)) :
           KeepsWarned(nodelist_set_consensus(Current, options, md_cache,
                                              ns, order))
  /\ \A name \in BareNames, warn \in BOOLEAN :
       KeepsWarned(NicknameLookupNow(name, warn).S)

\* C32 as stated: node_get_by_nickname of a bare nickname returns the node
\* of the identity the consensus binds the name to when there is a binding,
\* else none when the name is listed as Unnamed, else the first node of the
\* sequence whose nickname is the name, the case of the letters aside, or
\* none; repeated lookups of an ambiguous name with warn_if_unnamed warn
\* once at most, and a name_lookup_warned that is set is never cleared
\* while the node lives.
C32_LookupByNickname ==
  /\ \A name \in BareNames, warn \in BOOLEAN :
       NicknameLookupNow(name, warn).node = StatedForName(name)
  /\ \A name \in BareNames : WarnsOnce(name)
  /\ WarnedNeverCleared

\* C32 as amended: the same for every bare nickname but "Unnamed" (in any
\* case of the letters), for which node_get_by_nickname returns none
\* whatever the consensus and the nodes are.
C32_LookupByNicknameButUnnamed ==
  /\ \A name \in BareNames, warn \in BOOLEAN :
       NicknameLookupNow(name, warn).node =
         IF tor_strlower(name) = tor_strlower(UNNAMED_ROUTER_NICKNAME)
           THEN 0
           ELSE StatedForName(name)
  /\ \A name \in BareNames : WarnsOnce(name)
  /\ WarnedNeverCleared

\* the last lookup was of a name that two nodes have and no consensus binds
\* or lists as Unnamed: it warned, found the first of the two in sequence
\* order and set name_lookup_warned in both, so that a repeated lookup warns
\* no more
C32_Witness ==
  /\ Called("node_get_by_nickname")
  /\ accessed.nickname = <<"BOB">>
  /\ accessed.warn_if_unnamed
  /\ accessed.log # <<>>
  /\ BoundIds("BOB") = {} /\ ~ListedUnnamed("BOB")
  /\ Len(the_nodelist.nodes) = 2
  /\ \A o \in IndexNodes :
       NicknameIs(o, "BOB") /\ heap[o].name_lookup_warned
  /\ accessed.result = the_nodelist.nodes[1]
  /\ heap[accessed.result].identity = 2
  /\ NicknameLookupNow("BOB", TRUE).log = <<>>
  /\ NicknameLookupNow("BOB", TRUE).node = accessed.result


(***************************************************************************)
(* C33: nodes_in_same_family.                                              *)
(***************************************************************************)
SameFamilyNow(o1, o2) ==
  nodes_in_same_family(cur_ns, options, heap[o1], heap[o2])

\* the primary IPv4 address of a node: that of its ri, else of its rs
PrimaryIpv4(o) ==
  IF heap[o].ri # NULL THEN heap[o].ri.addr ELSE heap[o].rs.addr

\* (a) distinct subnets are enforced and the two are in one /16 network
SameSubnet(o1, o2) ==
  /\ options.EnforceDistinctSubnets
  /\ \E net \in 0..1 :
       /\ PrimaryIpv4(o1) \in (net * 65536)..(net * 65536 + 65535)
       /\ PrimaryIpv4(o2) \in (net * 65536)..(net * 65536 + 65535)

\* (c) some family set of the options has both
SameFamilySet(o1, o2) ==
  /\ options.NodeFamilySets # NULL
  /\ \E set \in Range(options.NodeFamilySets.list) :
       {heap[o1].identity, heap[o2].identity} \subseteq set.identities

\* the declared family of a node: that of its ri, else of its md
DeclaredBy(o) ==
  IF heap[o].ri # NULL /\ heap[o].ri.declared_family # NULL
    THEN Range(heap[o].ri.declared_family.list)
  ELSE IF heap[o].md # NULL /\ heap[o].md.family # NULL
    THEN Range(heap[o].md.family.list)
  ELSE {}

\* the nickname of the node is Named
NodeIsNamed(o) ==
  \E r \in {IF heap[o].rs # NULL THEN heap[o].rs ELSE heap[o].ri} :
    ConsensusBinds(r.nickname, heap[o].identity)

\* the token is a hex digest, the one of the node
HexNames(token, o) ==
  /\ token[1] = "$"
  /\ SubSeq(token, 1, HexDigestLen + 1) = HexToken(heap[o].identity)

\* a token matches a node as the claim states it: by its hex identity, or
\* by the nickname when that is Named
MatchesAsStated(token, o) ==
  \/ HexNames(token, o)
  \/ /\ Len(token) = 1
     /\ NicknameIs(o, token[1])
     /\ NodeIsNamed(o)

\* a token matches a node as the code has it: a bare nickname matches the
\* node of that nickname, Named or not; a hex digest matches the node of the
\* identity, $hex~name only when the nickname is name, $hex=name only when
\* the nickname is name and Named
MatchesAsCoded(token, o) ==
  \/ /\ Len(token) = 1
     /\ NicknameIs(o, token[1])
  \/ /\ HexNames(token, o)
     /\ Len(token) > HexDigestLen + 1 =>
          /\ Len(token) = HexDigestLen + 3
          /\ token[HexDigestLen + 2] \in {"=", "~"}
          /\ NicknameIs(o, token[HexDigestLen + 3])
          /\ token[HexDigestLen + 2] = "=" => NodeIsNamed(o)

\* (b) as stated and as coded: each declares a token that matches the other
MutualAsStated(o1, o2) ==
  /\ \E token \in DeclaredBy(o1) : MatchesAsStated(token, o2)
  /\ \E token \in DeclaredBy(o2) : MatchesAsStated(token, o1)
MutualAsCoded(o1, o2) ==
  /\ \E token \in DeclaredBy(o1) : MatchesAsCoded(token, o2)
  /\ \E token \in DeclaredBy(o2) : MatchesAsCoded(token, o1)

\* C33 as stated: nodes_in_same_family(n1, n2) is true iff (a) distinct
\* subnets are enforced and the primary IPv4 addresses share their top 16
\* bits, or (b) the declared family of each has a token that matches the
\* other, by $hex identity or by nickname only if that nickname is Named,
\* or (c) some family set of the options has both; and the relation is
\* symmetric.
C33_SameFamilyIff ==
  \A o1, o2 \in IndexNodes :
    /\ SameFamilyNow(o1, o2) <=>
         (SameSubnet(o1, o2) \/ MutualAsStated(o1, o2)
            \/ SameFamilySet(o1, o2))
    /\ SameFamilyNow(o1, o2) = SameFamilyNow(o2, o1)

\* C33 as amended: the same, with (b) a token matching by bare nickname,
\* the case of the letters aside, whether or not the nickname is Named, or
\* by $hex identity, a $hex~name only if the nickname is name and a
\* $hex=name only if the nickname is name and Named.
C33_SameFamilyIffAnyNickname ==
  \A o1, o2 \in IndexNodes :
    /\ SameFamilyNow(o1, o2) <=>
         (SameSubnet(o1, o2) \/ MutualAsCoded(o1, o2)
            \/ SameFamilySet(o1, o2))
    /\ SameFamilyNow(o1, o2) = SameFamilyNow(o2, o1)

\* the last call found alice and a bob that is not Named in one family by
\* the bare nicknames they declare alone, while the other bob, who declares
\* no family, is not of the family of alice
C33_Witness ==
  /\ accessed # NULL /\ accessed.fn = "nodes_in_same_family"
  /\ {accessed.node1, accessed.node2} \subseteq IndexNodes
  /\ accessed.result
  /\ accessed.result = SameFamilyNow(accessed.node1, accessed.node2)
  /\ ~SameSubnet(accessed.node1, accessed.node2)
  /\ ~SameFamilySet(accessed.node1, accessed.node2)
  /\ heap[accessed.node1].identity = 1
  /\ ~NodeIsNamed(accessed.node2)
  /\ DeclaredBy(accessed.node1) = {<<"bob">>}
  /\ DeclaredBy(accessed.node2) = {<<"alice">>}
  /\ \E o \in IndexNodes \ {accessed.node1, accessed.node2} :
       /\ DeclaredBy(o) = {}
       /\ ~SameFamilyNow(accessed.node1, o)


(***************************************************************************)
(* C34: nodelist_add_node_and_family and nodes_in_same_family.             *)
(***************************************************************************)
\* the nodes that nodelist_add_node_and_family adds to an empty sl, now
FamilyNow(o) ==
  Range(nodelist_add_node_and_family(Current, cur_ns, options, heap[o]))

\* C34: nodelist_add_node_and_family(sl, n) adds n itself and, as a set,
\* exactly the nodes m of the nodelist with nodes_in_same_family(n, m): the
\* nodes near in address, those in mutual declared family with n and those
\* of a family set with n, and no node in none of these relations with n.
C34_FamilyIsSameFamily ==
  \A o \in IndexNodes :
    FamilyNow(o) = {o} \cup {m \in IndexNodes : SameFamilyNow(o, m)}


(***************************************************************************)
(* C35: nodelist_add_node_and_family over a larger nodelist.               *)
(***************************************************************************)
\* the nodelist without node c, which has an ri only: the other nodes are
\* left with what they have, the last of the sequence takes the place of c
Without(c) == nodelist_remove_routerinfo(Current, heap[c].ri)

\* C35: nodelist_add_node_and_family is monotone in the nodelist: when a
\* nodelist has every node of another, with the same ri, rs and md, and
\* further nodes, in any sequence order, the set of nodes added for n over
\* the larger one has every node added for n over the smaller one.
C35_FamilyIsMonotone ==
  \A c \in IndexNodes :
    heap[c].rs = NULL =>
      \A n \in IndexNodes \ {c} :
        Range(nodelist_add_node_and_family(Without(c), cur_ns, options,
                                           heap[n]))
          \subseteq FamilyNow(n)


(***************************************************************************)
(* C36: a router and itself.                                               *)
(***************************************************************************)
\* C36: nodes_in_same_family(node1, node2) returns false whenever node1 and
\* node2 are the same router, whatever EnforceDistinctSubnets, the declared
\* families and NodeFamilySets are.
C36_NotInOwnFamily ==
  \A o \in IndexNodes : ~SameFamilyNow(o, o)


(***************************************************************************)
(* C37: the consensus path of a ready estimator.                           *)
(***************************************************************************)
\* C37: whenever have_min_dir_info is true, have_consensus_path is EXIT or
\* INTERNAL and never UNKNOWN, in every reachable state of the readiness
\* estimator, however router_dir_info_changed, router_have_minimum_dir_info
\* and count_loading_descriptors_progress interleave.
C37_ReadyHasConsensusPath ==
  have_min_dir_info =>
    have_consensus_path \in {CONSENSUS_PATH_EXIT, CONSENSUS_PATH_INTERNAL}

\* the estimator is ready with an internal path and marked to be
\* recomputed, after it had been recomputed more than once
C37_Witness ==
  /\ have_min_dir_info
  /\ have_consensus_path = CONSENSUS_PATH_INTERNAL
  /\ need_to_update_have_min_dir_info
  /\ last_client_status = "ENOUGH_DIR_INFO"


(***************************************************************************)
(* C38: an attached md belongs to the rs of its node.                      *)
(***************************************************************************)
\* the consensus last given to nodelist_set_consensus is the latest
\* microdesc-flavored consensus
CurrentIsLatestMicrodesc ==
  /\ cur_ns # NULL
  /\ cur_ns.flavor = FLAV_MICRODESC
  /\ cur_ns = md_ns

\* the md of node o, when there is one, is the one its rs names
MdMatchesRs(o) ==
  heap[o].md # NULL =>
    /\ heap[o].rs # NULL
    /\ heap[o].md.digest = heap[o].rs.descriptor_digest

ConsensusStillAttached ==
  \A i \in 1..Len(cur_ns.routerstatus_list) :
    LET rs == cur_ns.routerstatus_list[i]
    IN  \E o \in IndexNodes :
          heap[o].identity = rs.identity_digest /\ heap[o].rs = rs

SetStatusEffect(id, up) ==
  LET node == node_get_by_id(id)
  IN  /\ have_min_dir_info' = have_min_dir_info
      /\ the_nodelist' = the_nodelist
      /\ IF node # 0
           THEN /\ heap' = [heap EXCEPT ![node].is_running = up]
                /\ need_to_update_have_min_dir_info' =
                     IF heap[node].is_running # up
                       THEN TRUE
                       ELSE need_to_update_have_min_dir_info
           ELSE /\ heap' = heap
                /\ need_to_update_have_min_dir_info' =
                     need_to_update_have_min_dir_info

\* C39: router_set_status(id, up) sets is_running of the node with identity
\* id to up and marks the readiness estimator dirty iff that node exists and
\* its is_running actually changes; for an identity without node it creates
\* no node and leaves the dirty bit as it was; it never changes
\* have_min_dir_info.
C39_SetStatusFrame ==
  [][\A id \in Ids, up \in BOOLEAN :
       RouterSetStatus(id, up) => SetStatusEffect(id, up)]_vars

\* the estimator was ready and up to date, and router_set_status has marked
\* down a node that the consensus flags as running: the estimator is dirty
\* and still ready
C39_Witness ==
  /\ have_min_dir_info
  /\ need_to_update_have_min_dir_info
  /\ n_updates = 0
  /\ \E o \in IndexNodes :
       /\ heap[o].rs # NULL
       /\ heap[o].rs.is_flagged_running
       /\ ~heap[o].is_running


(***************************************************************************)
(* C40: nodelist_free_all, and starting again after it.                    *)
(***************************************************************************)
\* the nodes of the sequence whose md is md
Attachments(md) == {o \in SeqNodes : heap[o].md = md}

\* what nodelist_free_all leaves, in every state in which it is called
FreeAllEffect ==
  LET S == nodelist_free_all(Current)
  IN  /\ S.nl = NULL
      /\ \A o \in Objs : S.heap[o] = NULL
      /\ \A md \in AllMicrodescs :
           /\ S.held[md] = held_by_nodes[md] - Cardinality(Attachments(md))
           /\ held_by_nodes[md] = Cardinality(Attachments(md))
                => S.held[md] = 0
      /\ \A id \in Ids : node_get_mutable_by_id(S, id) = 0

\* the index and the sequence of S hold the same nodes, each once and at
\* its index, and every counter is the number of nodes that hold the md
WellFormed(S) ==
  /\ S.nl # NULL
  /\ S.nl.nodes_by_id = {S.nl.nodes[i] : i \in 1..Len(S.nl.nodes)}
  /\ Len(S.nl.nodes) = Cardinality(S.nl.nodes_by_id)
  /\ \A o \in S.nl.nodes_by_id :
       /\ S.heap[o] # NULL
       /\ 0 <= S.heap[o].nodelist_idx
       /\ S.heap[o].nodelist_idx < Len(S.nl.nodes)
       /\ smartlist_get(S.nl.nodes, S.heap[o].nodelist_idx) = o
  /\ \A md \in AllMicrodescs :
       S.held[md] = Cardinality({o \in S.nl.nodes_by_id : S.heap[o].md = md})

IdentitiesOf(S) == {S.heap[o].identity : o \in S.nl.nodes_by_id}

\* nodelist_set_routerinfo and nodelist_set_consensus right after
\* nodelist_free_all build a nodelist of the nodes they make and no other
RestartsFromEmpty ==
  LET S == nodelist_free_all(Current)
  IN  /\ \A ri \in RouterInfoInstances :
           LET T == nodelist_set_routerinfo(S, options, ri, {})
           IN  WellFormed(T) /\ IdentitiesOf(T) = {ri.identity_digest}
      /\ \A f \in {FLAV_NS, FLAV_MICRODESC}, l \in CoreListings :
           LET ns == Consensus(FreshNs, f, l)
           IN  \A order \in HtOrders(set_consensus_attach(S, options,
                                                          md_cache, ns)) :
                 LET T == nodelist_set_consensus(S, options, md_cache, ns,
                                                 order)
                 IN  /\ WellFormed(T)
                     /\ IdentitiesOf(T) =
                          {ns.routerstatus_list[i].identity_digest :
                             i \in 1..Len(ns.routerstatus_list)}

\* C40: after nodelist_free_all every md that was attached to a node has
\* held_by_nodes decremented once per attachment (zero when the nodelist
\* was its only holder), node_get_by_id returns none for every identity, and
\* a later set_routerinfo or set_consensus starts from an empty nodelist
\* that satisfies the index and sequence and the refcount invariants again.
C40_FreeAllAndRestart ==
  /\ FreeAllEffect
  /\ RestartsFromEmpty

\* an md is held by two nodes: nodelist_free_all brings its counter to
\* zero and leaves no node, and a microdesc consensus given next attaches an
\* md of the cache again
C40_Witness ==
  /\ \E md \in md_cache :
       /\ held_by_nodes[md] = 2
       /\ nodelist_free_all(Current).held[md] = 0
  /\ \E id \in Ids :
       /\ node_get_by_id(id) # 0
       /\ node_get_mutable_by_id(nodelist_free_all(Current), id) = 0
  /\ \E l \in CoreListings :
       LET S == nodelist_free_all(Current)
           ns == Consensus(FreshNs, FLAV_MICRODESC, l)
       IN  \E order \in HtOrders(set_consensus_attach(S, options,
                                                      md_cache, ns)) :
             \E md \in md_cache :
               nodelist_set_consensus(S, options, md_cache, ns,
                                      order).held[md] = 1

====
